---- MODULE Spec2Model ----
(***************************************************************************)
(* Model of the income table streaming API of tzindex                      *)
(* (server/tables, StreamIncomeTable) together with the parts of the pack  *)
(* table engine and of the indexer lookups it drives.                      *)
(*                                                                         *)
(* Strings that the code parses or formats (cursor values, filter values)  *)
(* are sequences of one-character strings, so that strconv.ParseUint and   *)
(* strconv.FormatUint are computed, not assumed.                           *)
(***************************************************************************)
EXTENDS Integers, Sequences, FiniteSets, Bags, TLC

VARIABLES
    call,       \* frame of a function that is called on its own: its
                \* arguments, its locals and its result
    cancelled,  \* ctx.Done() of the request: has it fired, and at which count
    tip,        \* ctx.Tip and the block times the indexer holds for it
    table,      \* rows of the income pack table (set of row records)
    pc,         \* position of the request inside StreamIncomeTable
    args,       \* *TableRequest
    query,      \* ctx.Request.URL.Query(): set of [prefix, mode, vals]
    srcNames,   \* short column names handed to q.WithFields
    conds,      \* q.Conditions: AND-list of pack.Condition, as a bag
    thrown,     \* value of a panic that is unwinding, or NoPanic
    status,     \* HTTP status written to the client, 0 = none yet
    hdrWrites,  \* number of times response headers were written
    body,       \* tokens written to ctx.ResponseWriter after the headers
    needComma,  \* local needComma of the JSON branch
    count,      \* local count
    lastId,     \* local lastId
    err,        \* local err
    pos,        \* number of matching rows the pack iterator has delivered
    trailers,   \* trailers written by ctx.StreamTrailer
    pages,      \* row ids emitted by earlier responses of this pagination
    first,      \* the request that started this pagination
    faulty      \* a storage fault has hit an account lookup of this pagination

\* the variables of StreamIncomeTable
streamVars ==
    <<tip, table, pc, args, query, srcNames, conds, thrown, status, hdrWrites,
      body, needComma, count, lastId, err, pos, trailers, pages, first, faulty>>

\* the variables the steps of StreamIncomeTable leave alone: the calls of
\* functions on their own, and the cancellation handle of the request
libVars == <<call, cancelled>>

vars == <<libVars, streamVars>>

\* no call of a function is under way
NoCall == [fn |-> "none"]

\* the cancellation handle has not fired
NotCancelled == [fired |-> FALSE, count |-> 0]

LibIdle == call = NoCall /\ cancelled = NotCancelled

-----------------------------------------------------------------------------
(* Bounds of the model *)

MaxRows == 3        \* the income table holds at most MaxRows rows
MaxLimit == 2       \* args.Limit ranges over 0..MaxLimit
UintBits == 4       \* width standing for the 64 bits of uint64
IntBits == 21       \* width standing for the 63 value bits of int64
MaxHeight == 3      \* a chain holds at most MaxHeight blocks
MaxBlockTime == 4   \* block timestamps range over 1..MaxBlockTime
BlocksPerCycle == 2 \* params.BlocksPerCycle
BlockTime == 2      \* params.BlockTime(), in units of the timestamps
MaxColumns == 3     \* a projection names at most MaxColumns columns
MaxOps == 4         \* the op table holds at most MaxOps rows of an account
MaxOffset == 2      \* r.Offset ranges over 0..MaxOffset

-----------------------------------------------------------------------------
(* strconv *)

\* math.MaxUint64 at the model's width
MaxUint64 == 2^UintBits - 1

DigitChars == <<"0", "1", "2", "3", "4", "5", "6", "7", "8", "9">>

IsDigit(ch) == \E i \in 1..10 : DigitChars[i] = ch

DigitVal(ch) == (CHOOSE i \in 1..10 : DigitChars[i] = ch) - 1

RECURSIVE ParseDigits(_, _)
ParseDigits(s, acc) ==
    IF s = <<>> THEN [ok |-> TRUE, val |-> acc]
    ELSE IF ~IsDigit(Head(s))
         THEN [ok |-> FALSE, val |-> 0]                   \* ErrSyntax
    ELSE IF acc * 10 + DigitVal(Head(s)) > MaxUint64
         THEN [ok |-> FALSE, val |-> MaxUint64]           \* ErrRange
    ELSE ParseDigits(Tail(s), acc * 10 + DigitVal(Head(s)))

\* strconv.ParseUint(s, 10, 64): ok is err == nil
ParseUint(s) ==
    IF s = <<>> THEN [ok |-> FALSE, val |-> 0] ELSE ParseDigits(s, 0)

RECURSIVE FormatUint(_)
\* strconv.FormatUint(n, 10)
FormatUint(n) ==
    IF n < 10 THEN <<DigitChars[n + 1]>>
    ELSE Append(FormatUint(n \div 10), DigitChars[(n % 10) + 1])

\* math.MaxInt64 at the model's width
MaxInt64 == 2^IntBits - 1

RECURSIVE ParseIntDigits(_, _)
ParseIntDigits(s, acc) ==
    IF s = <<>> THEN [ok |-> TRUE, val |-> acc]
    ELSE IF ~IsDigit(Head(s))
         THEN [ok |-> FALSE, val |-> 0]                   \* ErrSyntax
    ELSE IF acc * 10 + DigitVal(Head(s)) > MaxInt64
         THEN [ok |-> FALSE, val |-> MaxInt64]            \* ErrRange
    ELSE ParseIntDigits(Tail(s), acc * 10 + DigitVal(Head(s)))

\* strconv.ParseInt(s, 10, 64): ok is err == nil
ParseInt(s) ==
    IF s = <<>> THEN [ok |-> FALSE, val |-> 0]
    ELSE IF Head(s) = "-"
    THEN LET r == IF Tail(s) = <<>> THEN [ok |-> FALSE, val |-> 0]
                  ELSE ParseIntDigits(Tail(s), 0)
         IN  [ok |-> r.ok, val |-> 0 - r.val]
    ELSE ParseIntDigits(s, 0)

\* strconv.FormatInt(n, 10)
FormatInt(n) == IF n < 0 THEN <<"-">> \o FormatUint(0 - n) ELSE FormatUint(n)

\* position of the decimal point of s, 0 without one
DotPos(s) ==
    IF \E i \in 1..Len(s) : s[i] = "."
    THEN CHOOSE i \in 1..Len(s) : s[i] = "." /\ \A j \in 1..(i - 1) : s[j] # "."
    ELSE 0

RECURSIVE DigitsValue(_, _)
\* the number the digit string s continues from acc
DigitsValue(s, acc) ==
    IF s = <<>> THEN acc ELSE DigitsValue(Tail(s), acc * 10 + DigitVal(Head(s)))

\* strconv.ParseFloat(s, 64) for plain decimals: [ok, int, frac], the value
\* is int + 0.frac; ok is err == nil
ParseFloat(s) ==
    LET d == DotPos(s)
        ip == IF d = 0 THEN s ELSE SubSeq(s, 1, d - 1)
        fr == IF d = 0 THEN <<>> ELSE SubSeq(s, d + 1, Len(s))
        digits == \A i \in 1..Len(s) : i # d => IsDigit(s[i])
    IN  IF digits /\ Len(ip) + Len(fr) > 0
        THEN [ok |-> TRUE, int |-> DigitsValue(ip, 0), frac |-> fr]
        ELSE [ok |-> FALSE, int |-> 0, frac |-> <<>>]

RECURSIVE FracTimes(_, _)
\* the integer part of 0.fr * scale, scale a power of ten
FracTimes(fr, scale) ==
    IF fr = <<>> \/ scale < 10 THEN 0
    ELSE DigitVal(Head(fr)) * (scale \div 10) + FracTimes(Tail(fr), scale \div 10)

\* int64(fval * scale)
FloatTimes(f, scale) == f.int * scale + FracTimes(f.frac, scale)

\* strconv.AppendFloat(buf, float64(n)/div, 'f', 2, 64) for div = 100, n >= 0
FormatHundredths(n) ==
    FormatUint(n \div 100) \o <<".", DigitChars[((n % 100) \div 10) + 1],
                                DigitChars[(n % 10) + 1]>>

-----------------------------------------------------------------------------
(* Field registry of the income table *)

\* table.Fields().Names(): the stored columns, by short tag.  The model keeps
\* the primary key, the cycle, the account id and the luck percentage of the
\* 40 stored columns.
TableFieldNames == <<"I", "c", "A", "l">>

\* table.Fields().Pk().Name
PkField == "I"

\* incomeSourceNames after init(): long name -> short tag
incomeSourceNames ==
    [n \in {"row_id", "cycle", "account_id", "luck_percent", "address", "time",
            "start_time", "end_time"} |->
        CASE n = "row_id" -> "I"
          [] n = "cycle" -> "c"
          [] n = "account_id" -> "A"
          [] n = "luck_percent" -> "l"
          [] n = "address" -> "A"
          [] OTHER -> "c"]

\* incomeAllAliases after init()
incomeAllAliases ==
    <<"row_id", "cycle", "account_id", "luck_percent">>
        \o <<"address", "start_time", "end_time">>

-----------------------------------------------------------------------------
(* Errors *)

NoPanic == [status |-> 0, code |-> "", msg |-> ""]

\* server.EBadRequest(code, msg, err)
EBadRequest(code, msg) == [status |-> 400, code |-> code, msg |-> msg]

\* server.ENotFound(code, msg, err)
ENotFound(code, msg) == [status |-> 404, code |-> code, msg |-> msg]

\* panic(err) with an error that is no *server.Error
ERaw(msg) == [status |-> 500, code |-> "", msg |-> msg]

-----------------------------------------------------------------------------
(* Account lookup *)

\* addresses tezos.ParseAddress accepts (addr.IsValid())
ValidAddresses == {"tz1A", "tz1B", "tz1U"}

\* account table: address -> row id; tz1U has no entry
AccountTable == [a \in {"tz1A", "tz1B"} |-> IF a = "tz1A" THEN 1 ELSE 2]

AccountIds == {AccountTable[a] : a \in DOMAIN AccountTable}

\* faults of the storage layer during one lookup
LookupFaults == {"none", "table", "exec"}

\* Indexer.LookupAccount(ctx, addr): [acc, err]; acc = 0 stands for a nil
\* *model.Account, err is "" for nil
LookupAccount(addr, fault) ==
    IF addr \notin ValidAddresses THEN [acc |-> 0, err |-> "ErrInvalidHash"]
    ELSE IF fault = "table" THEN [acc |-> 0, err |-> "database"]
    ELSE LET rowId == IF fault = "none" /\ addr \in DOMAIN AccountTable
                      THEN AccountTable[addr] ELSE 0
             execErr == IF fault = "exec" THEN "database" ELSE ""
             e == IF rowId = 0 THEN "ErrNoAccountEntry" ELSE execErr
         IN  IF e # "" THEN [acc |-> 0, err |-> e]
             ELSE [acc |-> rowId, err |-> ""]

-----------------------------------------------------------------------------
(* Chain parameters, tip and the block-time index *)

\* params.CycleFromHeight(height)
CycleFromHeight(h) == IF h <= 0 THEN 0 ELSE (h - 1) \div BlocksPerCycle

\* the block timestamps a chain can have, by height: strictly increasing
Chains ==
    {ts \in UNION {[1..n -> 1..MaxBlockTime] : n \in 1..MaxHeight} :
        \A i \in 1..(Len(ts) - 1) : ts[i] < ts[i + 1]}

\* ctx.Tip of a chain, with the block times the indexer holds
TipOf(ts) == [BestHeight |-> Len(ts), BestTime |-> ts[Len(ts)], times |-> ts]

\* the chain with one block per unit of time
RegularChain == [h \in 1..MaxHeight |-> h]

\* Indexer.LookupBlockHeightFromTime(ctx, t): height of the latest block whose
\* time is not after t, 0 before the first block
LookupBlockHeightFromTime(t) ==
    Cardinality({h \in 1..Len(tip.times) : tip.times[h] <= t})

\* mutant: a time after the tip is counted from height 0
TimeToHeightNoBase(t) ==
    IF ~(t > tip.BestTime) THEN LookupBlockHeightFromTime(t)
    ELSE (t - tip.BestTime) \div BlockTime

\* case "time": the height a time stands for, by index up to the tip and by
\* the block time after it
TimeToHeight(t) ==
    IF ~(t > tip.BestTime) THEN LookupBlockHeightFromTime(t)
    ELSE tip.BestHeight + (t - tip.BestTime) \div BlockTime

\* case "time": the cycle a time stands for
TimeToCycle(t) == CycleFromHeight(TimeToHeight(t))

\* case "start_time", "end_time": the cycle a time stands for
BoundToCycle(t) == CycleFromHeight(LookupBlockHeightFromTime(t))

-----------------------------------------------------------------------------
(* pack: filter modes, conditions, ordered streaming *)

FilterModes == {"eq", "ne", "gt", "gte", "lt", "lte", "in", "nin", "rg", "re"}

\* pack.ParseFilterMode(s); "invalid" is FilterModeInvalid
ParseFilterMode(s) == IF s \in FilterModes THEN s ELSE "invalid"

\* pack.Condition{Field, Mode, Value, From, To}; Value of a list mode is list
Condition(field, mode, value) ==
    [field |-> field, mode |-> mode, value |-> value, from |-> 0, to |-> 0,
     list |-> <<>>]

ListCondition(field, mode, list) ==
    [field |-> field, mode |-> mode, value |-> 0, from |-> 0, to |-> 0,
     list |-> list]

RangeCondition(field, from, to) ==
    [field |-> field, mode |-> "rg", value |-> 0, from |-> from, to |-> to,
     list |-> <<>>]

SeqRange(s) == {s[i] : i \in 1..Len(s)}

\* Condition.MaybeMatch / vector match of one row
MatchCondition(c, row) ==
    LET v == row[c.field] IN
    CASE c.mode = "eq" -> v = c.value
      [] c.mode = "ne" -> v # c.value
      [] c.mode = "gt" -> v > c.value
      [] c.mode = "gte" -> v >= c.value
      [] c.mode = "lt" -> v < c.value
      [] c.mode = "lte" -> v <= c.value
      [] c.mode = "in" -> v \in SeqRange(c.list)
      [] c.mode = "nin" -> v \notin SeqRange(c.list)
      [] c.mode = "rg" -> c.from <= v /\ v <= c.to
      [] OTHER -> FALSE

\* a row passes the AND-list
MatchAll(cs, row) == \A c \in BagToSet(cs) : MatchCondition(c, row)

RECURSIVE SortedIds(_)
\* ascending sequence of a set of row ids
SortedIds(S) ==
    IF S = {} THEN <<>>
    ELSE LET m == CHOOSE x \in S : \A y \in S : x <= y
         IN  <<m>> \o SortedIds(S \ {m})

Reverse(s) == [i \in 1..Len(s) |-> s[Len(s) + 1 - i]]

RowById(rows, id) == CHOOSE r \in rows : r.I = id

\* the rows table.Stream delivers to its callback, in delivery order
StreamRows(rows, cs, order) ==
    LET ids == SortedIds({r.I : r \in {x \in rows : MatchAll(cs, x)}})
        ord == IF order = "desc" THEN Reverse(ids) ELSE ids
    IN  [i \in 1..Len(ord) |-> RowById(rows, ord[i])]

-----------------------------------------------------------------------------
(* pack.ParseCondition for the integer columns *)

RECURSIVE SplitComma(_, _)
\* strings.Split(s, ","), cur is the piece being collected
SplitComma(s, cur) ==
    IF s = <<>> THEN <<cur>>
    ELSE IF Head(s) = "," THEN <<cur>> \o SplitComma(Tail(s), <<>>)
    ELSE SplitComma(Tail(s), Append(cur, Head(s)))

Split(s) == SplitComma(s, <<>>)

\* Field.Type.ParseAs(s): row and account ids are uint64, the other columns
\* int64
ParseAs(short, s) == IF short \in {"I", "A"} THEN ParseUint(s) ELSE ParseInt(s)

\* pack.ParseCondition(key, val, fields) with key = short[.mode]:
\* [ok, cond]; ok is err == nil
ParseCondition(short, mode, v) ==
    LET parts == Split(v)
        nums == [i \in 1..Len(parts) |-> ParseAs(short, parts[i])]
        allOk == \A i \in 1..Len(parts) : nums[i].ok
        bad == [ok |-> FALSE, cond |-> Condition(short, mode, 0)]
    IN  IF short \notin SeqRange(TableFieldNames) \/ mode \notin FilterModes
        THEN bad
        ELSE CASE mode = "rg" ->
                    IF Len(parts) = 2 /\ allOk
                    THEN [ok |-> TRUE,
                          cond |-> RangeCondition(short, nums[1].val, nums[2].val)]
                    ELSE bad
               [] mode \in {"in", "nin"} ->
                    IF allOk
                    THEN [ok |-> TRUE,
                          cond |-> ListCondition(short, mode,
                                     [i \in 1..Len(parts) |-> nums[i].val])]
                    ELSE bad
               [] mode = "re" -> bad
               [] OTHER ->
                    IF ParseAs(short, v).ok
                    THEN [ok |-> TRUE,
                          cond |-> Condition(short, mode, ParseAs(short, v).val)]
                    ELSE bad

-----------------------------------------------------------------------------
(* StreamIncomeTable: compilation of the query *)

ReservedKeys == {"columns", "limit", "order", "verbose", "filename"}

Ok(cs) == [conds |-> cs, thrown |-> NoPanic]

Throw(cs, e) == [conds |-> cs, thrown |-> e]

AddAndCondition(cs, c) == cs (+) SetToBag({c})

\* mutant: the cursor mode ignores the order
CursorModeAlwaysGt(order) == "gt"

\* mutant: the cursor modes of the two orders are exchanged
CursorModeSwapped(order) == IF order = "desc" THEN "gt" ELSE "lt"

\* mode of the cursor condition
CursorMode(order) == IF order = "desc" THEN "lt" ELSE "gt"

\* case "cursor"
CompileCursor(vals, order, cs) ==
    LET id == ParseUint(vals[1]) IN
    IF ~id.ok
    THEN Throw(cs, EBadRequest("PARAM_INVALID", "invalid cursor value"))
    ELSE Ok(AddAndCondition(cs, Condition(PkField, CursorMode(order), id.val)))

\* value of the account-id condition of a single-address filter
AccountCondValue(look) ==
    IF look.acc = 0 THEN MaxUint64 ELSE look.acc

RECURSIVE LookupIds(_, _)
\* the loop over strings.Split(val[0], ","): [thrown, ids]
LookupIds(addrs, fault) ==
    IF addrs = <<>> THEN [thrown |-> NoPanic, ids |-> <<>>]
    ELSE LET a == Head(addrs)
             look == LookupAccount(a, fault)
             rest == LookupIds(Tail(addrs), fault)
         IN  IF a \notin ValidAddresses
             THEN [thrown |-> EBadRequest("PARAM_INVALID", "invalid address"),
                   ids |-> <<>>]
             ELSE IF look.err # "" /\ look.err # "ErrNoAccountEntry"
             THEN [thrown |-> ERaw(look.err), ids |-> <<>>]
             ELSE IF rest.thrown # NoPanic THEN rest
             ELSE IF look.acc = 0 THEN rest
             ELSE [thrown |-> NoPanic, ids |-> <<look.acc>> \o rest.ids]

\* mutant: an address without account entry adds no condition
SingleAddressSkipUnknown(mode, vals, fault, cs) ==
    LET addr == vals[1][1]
        look == LookupAccount(addr, fault)
    IN  IF Len(vals[1]) # 1 \/ addr \notin ValidAddresses
        THEN Throw(cs, EBadRequest("PARAM_INVALID", "invalid address"))
        ELSE IF look.err # "" /\ look.err # "ErrNoAccountEntry"
        THEN Throw(cs, ERaw(look.err))
        ELSE IF look.acc = 0 THEN Ok(cs)
        ELSE Ok(AddAndCondition(cs, Condition("A", mode, look.acc)))

\* case "address", modes eq and ne: single-address lookup and compile
\* condition; an address value is the list strings.Split gives for val[0]
CompileSingleAddress(mode, vals, fault, cs) ==
    LET addr == vals[1][1]
        look == LookupAccount(addr, fault)
    IN  IF Len(vals[1]) # 1 \/ addr \notin ValidAddresses
        THEN Throw(cs, EBadRequest("PARAM_INVALID", "invalid address"))
        ELSE IF look.err # "" /\ look.err # "ErrNoAccountEntry"
        THEN Throw(cs, ERaw(look.err))
        ELSE Ok(AddAndCondition(cs, Condition("A", mode, AccountCondValue(look))))

\* case "address", modes in and nin: multi-address lookup and compile condition
CompileAddressList(mode, vals, fault, cs) ==
    LET r == LookupIds(vals[1], fault) IN
    IF r.thrown # NoPanic THEN Throw(cs, r.thrown)
    ELSE Ok(AddAndCondition(cs, ListCondition("A", mode, r.ids)))

\* case "address"
CompileAddress(mode, vals, fault, cs) ==
    CASE mode \in {"eq", "ne"} -> CompileSingleAddress(mode, vals, fault, cs)
      [] mode \in {"in", "nin"} -> CompileAddressList(mode, vals, fault, cs)
      [] OTHER ->
            Throw(cs, EBadRequest("PARAM_INVALID", "invalid filter mode for column"))

\* pack.ParseCondition(key, val[0], fields) with one datetime field:
\* [ok, times]; a time is written as a decimal number of time units
ParseTimeCondition(mode, v) ==
    LET parts == Split(v)
        ts == [i \in 1..Len(parts) |-> ParseInt(parts[i])]
        allOk == \A i \in 1..Len(parts) : ts[i].ok
        times == [i \in 1..Len(parts) |-> ts[i].val]
    IN  CASE mode = "rg" -> [ok |-> Len(parts) = 2 /\ allOk, times |-> times]
          [] mode \in {"in", "nin"} -> [ok |-> allOk, times |-> times]
          [] mode = "re" -> [ok |-> FALSE, times |-> <<>>]
          [] OTHER -> [ok |-> ParseInt(v).ok, times |-> <<ParseInt(v).val>>]

\* case "time": translate time into height, use val[0] only
CompileTime(mode, vals, cs) ==
    LET c == ParseTimeCondition(mode, vals[1]) IN
    IF ~c.ok
    THEN Throw(cs, EBadRequest("PARAM_INVALID", "invalid filter value"))
    ELSE CASE mode = "rg" ->
                Ok(AddAndCondition(cs, RangeCondition("c", TimeToCycle(c.times[1]),
                                                      TimeToCycle(c.times[2]))))
           [] mode \in {"in", "nin"} ->
                \* cond.Value.(time.Time) on a list of times
                Throw(cs, ERaw("interface conversion"))
           [] OTHER ->
                Ok(AddAndCondition(cs, Condition("c", mode, TimeToCycle(c.times[1]))))

\* case "start_time", "end_time": the mode of the cycle condition
BoundMode(prefix) == IF prefix = "start_time" THEN "gte" ELSE "lte"

\* case "start_time", "end_time": convert time -> block -> cycle
CompileBound(prefix, mode, v, cs) ==
    IF mode # "eq"
    THEN Throw(cs, EBadRequest("PARAM_INVALID", "invalid filter mode for column"))
    ELSE IF ~ParseInt(v).ok
    THEN Throw(cs, EBadRequest("PARAM_INVALID", "invalid filter value"))
    ELSE Ok(AddAndCondition(cs, Condition("c", BoundMode(prefix),
                                          BoundToCycle(ParseInt(v).val))))

RECURSIVE Join(_)
\* strings.Join(parts, ",")
Join(parts) ==
    IF Len(parts) = 0 THEN <<>>
    ELSE IF Len(parts) = 1 THEN parts[1]
    ELSE parts[1] \o <<",">> \o Join(Tail(parts))

\* the factor between a percentage in a filter value and the stored integer
PercentScale == 10000

\* case "luck_percent", ...: [ok, v], v is the value handed to ParseCondition
ConvertPercent(v) ==
    LET parts == Split(v)
        fs == [i \in 1..Len(parts) |-> ParseFloat(parts[i])]
    IN  IF \E i \in 1..Len(parts) : ~fs[i].ok THEN [ok |-> FALSE, v |-> v]
        ELSE [ok |-> TRUE,
              v |-> Join([i \in 1..Len(parts) |->
                            FormatInt(FloatTimes(fs[i], PercentScale))])]

\* case "cycle": the literal head stands for the cycle of the tip
ConvertCycle(v) ==
    IF v = <<"h", "e", "a", "d">> THEN FormatInt(CycleFromHeight(tip.BestHeight))
    ELSE v

\* the switch over prefix inside the loop over val: [ok, v]
ConvertFilterValue(prefix, v) ==
    CASE prefix = "cycle" -> [ok |-> TRUE, v |-> ConvertCycle(v)]
      [] prefix = "luck_percent" -> ConvertPercent(v)
      [] OTHER -> [ok |-> TRUE, v |-> v]

RECURSIVE CompileValues(_, _, _, _)
\* default case: the loop over val
CompileValues(prefix, mode, vals, cs) ==
    IF vals = <<>> THEN Ok(cs)
    ELSE IF prefix \in {"start_time", "end_time"}
    THEN LET r == CompileBound(prefix, mode, Head(vals), cs) IN
         IF r.thrown # NoPanic THEN r
         ELSE CompileValues(prefix, mode, Tail(vals), r.conds)
    ELSE LET cv == ConvertFilterValue(prefix, Head(vals))
             c == ParseCondition(incomeSourceNames[prefix], mode, cv.v)
         IN  IF ~cv.ok \/ ~c.ok
             THEN Throw(cs, EBadRequest("PARAM_INVALID", "invalid filter value"))
             ELSE CompileValues(prefix, mode, Tail(vals), AddAndCondition(cs, c.cond))

\* mutant: an unregistered filter name has an error code of its own
CompileDefaultOwnCode(prefix, mode, vals, cs) ==
    IF prefix \notin DOMAIN incomeSourceNames
    THEN Throw(cs, EBadRequest("UNKNOWN_COLUMN", "unknown column"))
    ELSE CompileValues(prefix, mode, vals, cs)

\* default case
CompileDefault(prefix, mode, vals, cs) ==
    IF prefix \notin DOMAIN incomeSourceNames
    THEN Throw(cs, EBadRequest("PARAM_INVALID", "unknown column"))
    ELSE CompileValues(prefix, mode, vals, cs)

\* one iteration of the loop over ctx.Request.URL.Query()
CompileKey(p, order, fault, cs) ==
    LET mode == IF p.mode = "" THEN "eq" ELSE ParseFilterMode(p.mode) IN
    IF mode = "invalid"
    THEN Throw(cs, EBadRequest("PARAM_INVALID", "invalid filter mode"))
    ELSE CASE p.prefix \in ReservedKeys -> Ok(cs)
           [] p.prefix = "cursor" -> CompileCursor(p.vals, order, cs)
           [] p.prefix = "address" -> CompileAddress(mode, p.vals, fault, cs)
           [] p.prefix = "time" -> CompileTime(mode, p.vals, cs)
           [] OTHER -> CompileDefault(p.prefix, mode, p.vals, cs)

RECURSIVE CompileKeys(_, _, _, _)
\* the loop over the query map, keys visited in the order ks
CompileKeys(ks, order, fault, cs) ==
    IF ks = <<>> THEN Ok(cs)
    ELSE LET r == CompileKey(Head(ks), order, fault, cs) IN
         IF r.thrown # NoPanic THEN r
         ELSE CompileKeys(Tail(ks), order, fault, r.conds)

\* the orders in which a Go map of these keys can be iterated
KeyOrders(q) ==
    {ks \in [1..Cardinality(q) -> q] : \A i, j \in 1..Cardinality(q) :
        i # j => ks[i] # ks[j]}

\* mutant: the requested columns are fetched under their long names
ResolveColumnsLongNames(cols) ==
    IF \E i \in 1..Len(cols) : cols[i] \notin DOMAIN incomeSourceNames
    THEN [ok |-> FALSE, names |-> <<>>]
    ELSE [ok |-> TRUE, names |-> cols]

\* short names of the requested columns: [ok, names]
ResolveColumns(cols) ==
    IF \E i \in 1..Len(cols) : cols[i] \notin DOMAIN incomeSourceNames
    THEN [ok |-> FALSE, names |-> <<>>]
    ELSE [ok |-> TRUE,
          names |-> LET short == [i \in 1..Len(cols) |-> incomeSourceNames[cols[i]]]
                    IN  SelectSeq(short, LAMBDA n : n # "-")]

-----------------------------------------------------------------------------
(* The requests and tables the model draws from *)

\* row ids a table can hold: increasing, with gaps left by deleted rows
RowIdAt(i) == 5 * i - 4

\* the cycle of an income row grows with its row id
CycleOfRow(id) == id \div 10

\* the luck of an income row, in hundredths of a percent: 100.00 or 99.99
LuckOfRow(id) == 9999 + (id % 2)

\* the tables: any subset of the row ids, any account on each row
Tables ==
    UNION {{{[I |-> RowIdAt(i), c |-> CycleOfRow(RowIdAt(i)), A |-> f[i],
              l |-> LuckOfRow(RowIdAt(i))] : i \in S} :
                f \in [S -> AccountIds]} : S \in SUBSET (1..MaxRows)}

CursorValues == {<<"0", "3">>, <<"x">>, <<"9", "9">>}

CursorParams ==
    {[prefix |-> "cursor", mode |-> "", vals |-> <<v>>] : v \in CursorValues}

AddressParams ==
    {[prefix |-> "address", mode |-> m[1], vals |-> <<<<m[2]>>>>] :
        m \in {<<"", "tz1A">>, <<"", "tz1U">>, <<"ne", "tz1A">>, <<"ne", "tz1U">>,
               <<"", "bad">>, <<"gt", "tz1A">>, <<"zz", "tz1A">>}}

CycleParams == {[prefix |-> "cycle", mode |-> "", vals |-> <<<<"1">>>>]}

Optional(S) == {{}} \cup {{p} : p \in S}

Queries ==
    {c \cup a \cup y : c \in Optional(CursorParams), a \in Optional(AddressParams),
                       y \in Optional(CycleParams)}

ColumnLists == {<<>>, <<"row_id", "cycle">>, <<"row_id", "bogus">>}

\* TableRequest.Cursor is the first value of the cursor parameter
RequestCursor(q) ==
    IF \E p \in q : p.prefix = "cursor" /\ p.mode = ""
    THEN (CHOOSE p \in q : p.prefix = "cursor" /\ p.mode = "").vals[1]
    ELSE <<>>

ArgsOf(tbl, cols, limit, order, format, q) ==
    [Table |-> tbl, Columns |-> cols, Limit |-> limit, Order |-> order,
     Format |-> format, Cursor |-> RequestCursor(q)]

\* the requests: every filter combination with the default projection, the
\* explicit projections without filters, one request for a table that does
\* not exist
Requests ==
    {[args |-> ArgsOf("income", <<>>, l, o, f, q), query |-> q] :
        l \in 0..MaxLimit, o \in {"asc", "desc"}, f \in {"json", "csv"},
        q \in Queries}
    \cup {[args |-> ArgsOf("income", cols, l, "asc", f, {}), query |-> {}] :
        cols \in ColumnLists, l \in 0..MaxLimit, f \in {"json", "csv"}}
    \cup {[args |-> ArgsOf("nosuch", <<>>, 0, "asc", "json", {}), query |-> {}]}

-----------------------------------------------------------------------------
(* Body tokens and trailers *)

Tok(t) == [tok |-> t, id |-> 0]

RowTok(id) == [tok |-> "row", id |-> id]

\* ctx.StreamTrailer(cursor, count, err): the error trailer leaves out io.EOF
Trailer(cursor, n, e, at) ==
    [cursor |-> cursor, count |-> n,
     error |-> IF e \in {"nil", "EOF"} THEN "" ELSE e,
     at |-> at]

\* where the function goes once table.Stream has returned
AfterStream(format) == IF format = "json" THEN "close" ELSE "trailer"

-----------------------------------------------------------------------------
(* State machine *)

Idle ==
    /\ pc = "idle"
    /\ args = ArgsOf("", <<>>, 0, "asc", "json", {})
    /\ query = {}
    /\ srcNames = <<>>
    /\ conds = EmptyBag
    /\ thrown = NoPanic
    /\ status = 0
    /\ hdrWrites = 0
    /\ body = <<>>
    /\ needComma = FALSE
    /\ count = 0
    /\ lastId = 0
    /\ err = "nil"
    /\ pos = 0
    /\ trailers = <<>>

Init ==
    /\ LibIdle
    /\ tip = TipOf(RegularChain)
    /\ table \in Tables
    /\ Idle
    /\ pages = <<>>
    /\ first = [args |-> args, query |-> query]
    /\ faulty = FALSE

\* a request enters StreamIncomeTable
Start(r) ==
    /\ args' = r.args
    /\ query' = r.query
    /\ pc' = "table"
    /\ srcNames' = <<>>
    /\ conds' = EmptyBag
    /\ thrown' = NoPanic
    /\ status' = 0
    /\ hdrWrites' = 0
    /\ body' = <<>>
    /\ needComma' = FALSE
    /\ count' = 0
    /\ lastId' = 0
    /\ err' = "nil"
    /\ pos' = 0
    /\ trailers' = <<>>
    /\ UNCHANGED <<libVars, tip, table>>

Request ==
    /\ pc = "idle"
    /\ \E r \in Requests :
        /\ Start(r)
        /\ first' = r
    /\ pages' = <<>>
    /\ faulty' = FALSE

\* access table
ResolveTable ==
    /\ pc = "table"
    /\ IF args.Table = "income"
       THEN pc' = "columns" /\ UNCHANGED thrown
       ELSE /\ thrown' = ENotFound("RESOURCE_NOTFOUND", "cannot access table")
            /\ pc' = "panic"
    /\ UNCHANGED <<libVars, tip, table, args, query, srcNames, conds, status, hdrWrites, body,
                   needComma, count, lastId, err, pos, trailers, pages, first, faulty>>

\* translate long column names to short names
TranslateColumns ==
    /\ pc = "columns"
    /\ IF Len(args.Columns) > 0
       THEN LET r == ResolveColumns(args.Columns) IN
            IF r.ok
            THEN /\ srcNames' = r.names
                 /\ pc' = "filters"
                 /\ UNCHANGED <<args, thrown>>
            ELSE /\ thrown' = EBadRequest("PARAM_INVALID", "unknown column")
                 /\ pc' = "panic"
                 /\ UNCHANGED <<args, srcNames>>
       ELSE /\ srcNames' = TableFieldNames
            /\ args' = [args EXCEPT !.Columns = incomeAllAliases]
            /\ pc' = "filters"
            /\ UNCHANGED thrown
    /\ UNCHANGED <<libVars, tip, table, query, conds, status, hdrWrites, body, needComma,
                   count, lastId, err, pos, trailers, pages, first, faulty>>

\* the storage faults that can hit the account lookups of a query
FaultsOf(q) ==
    IF \E p \in q : p.prefix = "address" THEN LookupFaults ELSE {"none"}

\* mutant: a failed compilation goes on to the response headers
AfterCompileIgnoreError(r) == "headers"

\* where the function goes after the loop over the query parameters
AfterCompile(r) == IF r.thrown # NoPanic THEN "panic" ELSE "headers"

\* build dynamic filter conditions from query
CompileFilters ==
    /\ pc = "filters"
    /\ \E ks \in KeyOrders(query), fault \in FaultsOf(query) :
        LET r == CompileKeys(ks, args.Order, fault, EmptyBag) IN
        /\ thrown' = r.thrown
        /\ conds' = IF r.thrown # NoPanic THEN conds ELSE r.conds
        /\ pc' = AfterCompile(r)
        /\ faulty' = (faulty \/ fault # "none")
    /\ UNCHANGED <<libVars, tip, table, args, query, srcNames, status, hdrWrites, body,
                   needComma, count, lastId, err, pos, trailers, pages, first>>

\* ctx.StreamResponseHeaders(http.StatusOK, ...)
WriteHeaders ==
    /\ pc = "headers"
    /\ status' = IF hdrWrites = 0 THEN 200 ELSE status
    /\ hdrWrites' = hdrWrites + 1
    /\ pc' = IF args.Format = "json" THEN "open" ELSE "csvheader"
    /\ UNCHANGED <<libVars, tip, table, args, query, srcNames, conds, thrown, body, needComma,
                   count, lastId, err, pos, trailers, pages, first, faulty>>

\* open JSON array
OpenArray ==
    /\ pc = "open"
    /\ body' = Append(body, Tok("["))
    /\ pc' = "stream"
    /\ UNCHANGED <<libVars, tip, table, args, query, srcNames, conds, thrown, status, hdrWrites,
                   needComma, count, lastId, err, pos, trailers, pages, first, faulty>>

\* enc.EncodeHeader(args.Columns, nil)
EncodeHeader ==
    /\ pc = "csvheader"
    /\ \E ok \in BOOLEAN :
        IF Len(args.Columns) > 0 /\ ~ok
        THEN err' = "header" /\ pc' = "trailer" /\ UNCHANGED body
        ELSE /\ body' = IF Len(args.Columns) > 0 THEN Append(body, Tok("hdr"))
                        ELSE body
             /\ pc' = "stream"
             /\ UNCHANGED err
    /\ UNCHANGED <<libVars, tip, table, args, query, srcNames, conds, thrown, status, hdrWrites,
                   needComma, count, lastId, pos, trailers, pages, first, faulty>>

\* mutant: the deferred function closes the array without asking recover()
DeferredCloseAlways(b, panicking) == Append(b, Tok("]"))

\* the deferred function of the JSON branch: close JSON array on panic
DeferredClose(b, panicking) ==
    IF panicking THEN Append(b, Tok("]")) ELSE b

\* what unwinding does to the body when a panic leaves table.Stream
Unwind(b, format) ==
    IF format = "json" THEN DeferredClose(b, TRUE) ELSE b

\* mutant: the limit test fires one row late
LimitReachedLate(limit, n) == limit > 0 /\ n = limit + 1

\* the callback's limit test: args.Limit > 0 && count == int(args.Limit)
LimitReached(limit, n) == limit > 0 /\ n = limit

\* the separator the JSON callback writes before it decodes the row
WithComma(b, format, comma) ==
    IF format = "json" /\ comma THEN Append(b, Tok(",")) ELSE b

\* rows the query delivers for the compiled conditions
Delivered == StreamRows(table, conds, args.Order)

\* one invocation of the row callback by table.Stream
StreamRow ==
    /\ pc = "stream"
    /\ pos < Len(Delivered)
    /\ ~(args.Limit > 0 /\ pos >= args.Limit)
    /\ pos' = pos + 1
    /\ needComma' = IF args.Format = "json" THEN TRUE ELSE needComma
    /\ LET row == Delivered[pos + 1]
           b1 == WithComma(body, args.Format, needComma)
       IN  \E outcome \in {"ok", "decode", "encode", "panic"} :
            CASE outcome = "ok" ->
                    /\ body' = Append(b1, RowTok(row.I))
                    /\ count' = count + 1
                    /\ lastId' = row.I
                    /\ IF LimitReached(args.Limit, count + 1)
                       THEN err' = "EOF" /\ pc' = AfterStream(args.Format)
                       ELSE UNCHANGED <<err, pc>>
                    /\ UNCHANGED thrown
              [] outcome \in {"decode", "encode"} ->
                    /\ body' = b1
                    /\ err' = outcome
                    /\ pc' = AfterStream(args.Format)
                    /\ UNCHANGED <<count, lastId, thrown>>
              [] OTHER ->
                    /\ body' = Unwind(b1, args.Format)
                    /\ thrown' = ERaw("panic")
                    /\ pc' = "panic"
                    /\ UNCHANGED <<count, lastId, err>>
    /\ UNCHANGED <<libVars, tip, table, args, query, srcNames, conds, status, hdrWrites,
                   trailers, pages, first, faulty>>

\* table.Stream fails between two rows: it returns an error or panics
StreamFail ==
    /\ pc = "stream"
    /\ \E kind \in {"error", "panic"} :
        IF kind = "error"
        THEN /\ err' = "iterator"
             /\ pc' = AfterStream(args.Format)
             /\ UNCHANGED <<body, thrown>>
        ELSE /\ body' = Unwind(body, args.Format)
             /\ thrown' = ERaw("panic")
             /\ pc' = "panic"
             /\ UNCHANGED err
    /\ UNCHANGED <<libVars, tip, table, args, query, srcNames, conds, status, hdrWrites,
                   needComma, count, lastId, pos, trailers, pages, first, faulty>>

\* table.Stream returns nil: no more matching rows, or the query limit is hit
StreamEnd ==
    /\ pc = "stream"
    /\ pos = Len(Delivered) \/ (args.Limit > 0 /\ pos >= args.Limit)
    /\ err' = "nil"
    /\ pc' = AfterStream(args.Format)
    /\ UNCHANGED <<libVars, tip, table, args, query, srcNames, conds, thrown, status, hdrWrites,
                   body, needComma, count, lastId, pos, trailers, pages, first, faulty>>

\* close JSON bracket
CloseArray ==
    /\ pc = "close"
    /\ body' = Append(body, Tok("]"))
    /\ pc' = "trailer"
    /\ UNCHANGED <<libVars, tip, table, args, query, srcNames, conds, thrown, status, hdrWrites,
                   needComma, count, lastId, err, pos, trailers, pages, first, faulty>>

\* mutant: the cursor is always taken from lastId
NextCursorAlwaysLast(input, last) == FormatUint(last)

\* without new records, cursor remains the same as input (may be empty)
NextCursor(input, last) == IF last > 0 THEN FormatUint(last) ELSE input

\* write error (except EOF), cursor and count as http trailer, then return;
\* the deferred function of the JSON branch runs on return
WriteTrailer ==
    /\ pc = "trailer"
    /\ trailers' = Append(trailers,
                     Trailer(NextCursor(args.Cursor, lastId), count, err, Len(body)))
    /\ body' = IF args.Format = "json" THEN DeferredClose(body, FALSE) ELSE body
    /\ pc' = "done"
    /\ UNCHANGED <<libVars, tip, table, args, query, srcNames, conds, thrown, status, hdrWrites,
                   needComma, count, lastId, err, pos, pages, first, faulty>>

\* the dispatcher's recovery point: a panic raised before the headers were
\* sent becomes an error response, a later one cannot change the status
Recover ==
    /\ pc = "panic"
    /\ IF hdrWrites = 0
       THEN status' = thrown.status /\ pc' = "rejected"
       ELSE UNCHANGED status /\ pc' = "aborted"
    /\ UNCHANGED <<libVars, tip, table, args, query, srcNames, conds, thrown, hdrWrites, body,
                   needComma, count, lastId, err, pos, trailers, pages, first, faulty>>

\* row ids of the rows in a body
RowIds(b) ==
    LET rows == SelectSeq(b, LAMBDA t : t.tok = "row")
    IN  [i \in 1..Len(rows) |-> rows[i].id]

\* the query of the following page: the cursor parameter carries the trailer cursor
WithCursor(q, cur) ==
    {p \in q : p.prefix # "cursor"}
        \cup {[prefix |-> "cursor", mode |-> "", vals |-> <<cur>>]}

\* the client asks for the next page with the trailer cursor of a response
\* that succeeded and carried rows
NextPage ==
    /\ pc = "done"
    /\ count > 0
    /\ trailers[1].error = ""
    /\ LET q == WithCursor(query, trailers[1].cursor) IN
        Start([args |-> ArgsOf(first.args.Table, first.args.Columns,
                               first.args.Limit, first.args.Order,
                               first.args.Format, q),
               query |-> q])
    /\ pages' = pages \o RowIds(body)
    /\ UNCHANGED <<first, faulty>>

Next ==
    \/ Request
    \/ ResolveTable
    \/ TranslateColumns
    \/ CompileFilters
    \/ WriteHeaders
    \/ OpenArray
    \/ EncodeHeader
    \/ StreamRow
    \/ StreamFail
    \/ StreamEnd
    \/ CloseArray
    \/ WriteTrailer
    \/ Recover
    \/ NextPage

Spec == Init /\ [][Next]_vars

-----------------------------------------------------------------------------
(* The filter compiler under every kind of filter key: one JSON request     *)
(* without limit against a full table, on every chain                       *)

Param(prefix, mode, vals) == [prefix |-> prefix, mode |-> mode, vals |-> vals]

\* address filters: lists with and without known accounts, a repeated key
AddressListParams ==
    {Param("address", m, <<l>>) :
        m \in {"in", "nin"}, l \in {<<"tz1U">>, <<"tz1A", "tz1U">>}}
    \cup {Param("address", "", <<<<"tz1A">>, <<"tz1B">>>>)}

\* cycle filters: a repeated key, the head sentinel
CycleFilterParams ==
    {Param("cycle", "", <<<<"0">>, <<"1">>>>),
     Param("cycle", "", <<<<"h", "e", "a", "d">>>>)}

\* time filters: times before and after the tip, a range across it, a
\* repeated key
TimeParams ==
    {Param("time", "", <<<<"2">>>>), Param("time", "", <<<<"9">>>>),
     Param("time", "gte", <<<<"4">>>>),
     Param("time", "rg", <<<<"2", ",", "9">>>>),
     Param("time", "", <<<<"2">>, <<"9">>>>)}

BoundParams ==
    {Param(n, "", <<<<t>>>>) : n \in {"start_time", "end_time"}, t \in {"2", "9"}}

\* percent filters: a threshold, the texts the encoder writes, a repeated key
PercentParams ==
    {Param("luck_percent", "gte", <<<<"1", "0", "0">>>>),
     Param("luck_percent", "", <<<<"1", "0", "0", ".", "0", "0">>>>),
     Param("luck_percent", "", <<<<"9", "9", ".", "9", "9">>>>),
     Param("luck_percent", "lte", <<<<"9", "9", ".", "9", "9">>, <<"1", "0", "0">>>>)}

\* keys the compiler rejects: unknown field, unknown mode, both, a value that
\* does not parse, a mode the column does not allow, the last two together
DefectParams ==
    {Param("bogus", "", <<<<"1">>>>), Param("cycle", "zz", <<<<"1">>>>),
     Param("bogus", "zz", <<<<"1">>>>), Param("cycle", "", <<<<"x">>>>),
     Param("start_time", "gt", <<<<"2">>>>), Param("start_time", "gt", <<<<"x">>>>)}

FilterParams ==
    AddressListParams \cup CycleFilterParams \cup TimeParams \cup BoundParams
        \cup PercentParams \cup DefectParams

\* one filter key, or two keys that are both rejected
FilterQueries ==
    {{p} : p \in FilterParams}
        \cup {{pq[1], pq[2]} :
                pq \in {d \in DefectParams \X DefectParams :
                           d[1].prefix # d[2].prefix \/ d[1].mode # d[2].mode}}

FilterRequests ==
    {[args |-> ArgsOf("income", <<>>, 0, "asc", "json", q), query |-> q] :
        q \in FilterQueries}
    \cup {[args |-> ArgsOf("income", cols, 0, "asc", "json", {}), query |-> {}] :
            cols \in {<<"row_id", "bogus">>, <<"address", "row_id", "start_time">>}}

FilterInit ==
    /\ LibIdle
    /\ tip \in {TipOf(ts) : ts \in Chains}
    /\ table \in {t \in Tables : Cardinality(t) = MaxRows}
    /\ Idle
    /\ pages = <<>>
    /\ first = [args |-> args, query |-> query]
    /\ faulty = FALSE

FilterRequest ==
    /\ pc = "idle"
    /\ \E r \in FilterRequests :
        /\ Start(r)
        /\ first' = r
    /\ pages' = <<>>
    /\ faulty' = FALSE

FilterNext ==
    \/ FilterRequest
    \/ ResolveTable
    \/ TranslateColumns
    \/ CompileFilters
    \/ WriteHeaders
    \/ OpenArray
    \/ StreamRow
    \/ StreamFail
    \/ StreamEnd
    \/ CloseArray
    \/ WriteTrailer
    \/ Recover

FilterSpec == FilterInit /\ [][FilterNext]_vars

-----------------------------------------------------------------------------
(* Vocabulary of the properties *)

HasCursor(q) == \E p \in q : p.prefix = "cursor"

CursorValue(q) == (CHOOSE p \in q : p.prefix = "cursor").vals[1]

RECURSIVE DecimalValue(_)
\* the number a digit string denotes, read from its last digit
DecimalValue(s) ==
    IF s = <<>> THEN 0
    ELSE 10 * DecimalValue(SubSeq(s, 1, Len(s) - 1)) + DigitVal(s[Len(s)])

\* an unsigned decimal integer of the width of the primary key
IsNumeric(s) ==
    /\ s # <<>>
    /\ \A i \in 1..Len(s) : IsDigit(s[i])
    /\ DecimalValue(s) <= MaxUint64

\* the query has been compiled and the function has gone on to the response
Compiled ==
    pc \in {"headers", "open", "csvheader", "stream", "close", "trailer", "done",
            "aborted"}
        \/ (pc = "panic" /\ hdrWrites > 0)

\* the response has ended after the status-200 headers were sent
StreamOver == pc \in {"done", "aborted"}

NoFailure == err \in {"nil", "EOF"} /\ thrown = NoPanic

CountTok(b, t) == Len(SelectSeq(b, LAMBDA x : x.tok = t))

\* "[", rows separated by one "," each, "]"
WellFormedArray(b) ==
    /\ Len(b) >= 2
    /\ Len(b) = 2 \/ Len(b) % 2 = 1
    /\ b[1].tok = "["
    /\ b[Len(b)].tok = "]"
    /\ \A i \in 2..(Len(b) - 1) :
        b[i].tok = IF i % 2 = 0 THEN "row" ELSE ","

AddressFilter(q, mode, addr) ==
    \E p \in q : p.prefix = "address" /\ p.mode = mode /\ p.vals = <<<<addr>>>>

\* the row ids one unlimited, undisturbed query with the filters of the first
\* request emits, in its order
UnpagedIds ==
    LET ks == CHOOSE k \in KeyOrders(first.query) : TRUE
        cs == CompileKeys(ks, first.args.Order, "none", EmptyBag).conds
        rows == StreamRows(table, cs, first.args.Order)
    IN  [i \in 1..Len(rows) |-> rows[i].I]

-----------------------------------------------------------------------------
(* Properties *)

\* C1: cursor pagination.  A pagination that starts without cursor and with a
\* limit L > 0, feeds each trailer cursor into the next request and is not
\* disturbed by a storage fault has, when a response emits zero rows, emitted
\* exactly the rows of one unlimited query, in the same order.
C1_PaginationEqualsUnpaged ==
    (/\ pc = "done"
     /\ first.args.Limit > 0
     /\ ~HasCursor(first.query)
     /\ ~faulty
     /\ NoFailure
     /\ count = 0)
        => pages = UnpagedIds

C1_Witness ==
    /\ pc = "done"
    /\ count = 0
    /\ NoFailure
    /\ ~faulty
    /\ ~HasCursor(first.query)
    /\ first.args.Order = "desc"
    /\ first.args.Limit = 2
    /\ Len(pages) = 3

\* C2: the trailer cursor denotes the row id of the last row emitted in this
\* response; when no row was emitted it is the input cursor, unchanged.
C2_TrailerCursor ==
    \A i \in 1..Len(trailers) :
        LET ids == RowIds(body) IN
        IF ids # <<>>
        THEN ParseUint(trailers[i].cursor) = [ok |-> TRUE, val |-> ids[Len(ids)]]
        ELSE trailers[i].cursor = args.Cursor

C2_Witness ==
    /\ pc = "done"
    /\ RowIds(body) = <<>>
    /\ trailers[1].cursor = <<"0", "3">>
    /\ table # {}

\* C3: a numeric cursor N compiles to exactly one condition on the primary
\* key, pk > N in ascending and pk < N in descending order; a cursor that is
\* not numeric never gets past compilation: the request ends in a bad-request
\* panic before any header or body byte is written.
C3_CursorCondition ==
    (pc # "idle" /\ HasCursor(query)) =>
        LET v == CursorValue(query)
            pk == {c \in BagToSet(conds) : c.field = PkField}
            want == Condition(PkField,
                              IF args.Order = "asc" THEN "gt" ELSE "lt",
                              DecimalValue(v))
        IN  IF IsNumeric(v)
            THEN Compiled => (pk = {want} /\ CopiesIn(want, conds) = 1)
            ELSE /\ ~Compiled
                 /\ hdrWrites = 0
                 /\ body = <<>>
                 /\ (pc \in {"panic", "rejected"} /\ ~faulty) => thrown.status = 400

C3_Witness ==
    /\ pc = "done"
    /\ HasCursor(query)
    /\ CursorValue(query) = <<"0", "3">>
    /\ args.Order = "desc"
    /\ count = 1

\* C4: in a JSON response the closing "]" is written at most once, and exactly
\* once, as the last body byte, when the stream has ended: exhausted, limit
\* reached, error of the iterator or of the callback, panic while streaming.
C4_BracketClosedOnce ==
    (args.Format = "json" /\ body # <<>>) =>
        /\ CountTok(body, "]") <= 1
        /\ CountTok(body, "[") = 1
        /\ pc \in {"trailer", "done", "panic", "aborted"} =>
            (CountTok(body, "]") = 1 /\ body[Len(body)].tok = "]")

C4_Witness ==
    /\ pc = "aborted"
    /\ args.Format = "json"
    /\ count = 1
    /\ CountTok(body, "]") = 1

\* C5: the body of a JSON response whose handler has returned is a well-formed
\* array, also after a decode, encode or iterator error: a comma stands only
\* between two rows.
C5_BodyWellFormed ==
    (args.Format = "json" /\ pc = "done") => WellFormedArray(body)

\* C6: with a limit L > 0 no more than L rows are emitted; when at least L
\* rows match and nothing fails, the callback ends the iteration right after
\* the L-th row and the trailer reports count L and no error.
C6_LimitStop ==
    (pc # "idle" /\ args.Limit > 0) =>
        /\ count <= args.Limit
        /\ Len(RowIds(body)) <= args.Limit
        /\ (pc = "done" /\ NoFailure /\ Len(Delivered) >= args.Limit) =>
            /\ err = "EOF"
            /\ pos = args.Limit
            /\ Len(RowIds(body)) = args.Limit
            /\ trailers[1].count = args.Limit
            /\ trailers[1].error = ""

C6_Witness ==
    /\ pc = "done"
    /\ args.Limit = 2
    /\ Len(Delivered) = 3
    /\ err = "EOF"
    /\ trailers[1].error = ""

\* C7: every response that reached streaming ends with exactly one trailer,
\* written after the last body byte; its count is the number of rows in the
\* body and its error is empty exactly when nothing failed.
C7_OneTrailer ==
    StreamOver =>
        /\ Len(trailers) = 1
        /\ trailers[1].at = Len(body)
        /\ trailers[1].count = Len(RowIds(body))
        /\ (trailers[1].error = "") <=> NoFailure

\* C8: state part.  Headers are written at most once; while the table, the
\* projection and the filters are resolved, and in a rejected request, no
\* header and no body byte has been written; a body byte implies status 200.
C8_Before ==
    /\ hdrWrites <= 1
    /\ (pc \in {"table", "columns", "filters", "headers", "rejected"}
            \/ (thrown # NoPanic /\ thrown.msg # "panic"))
        => (hdrWrites = 0 /\ body = <<>>)
    /\ pc = "rejected" => status >= 400
    /\ (body # <<>> \/ hdrWrites = 1) => status = 200

\* C8: step part.  The headers are written when compilation has succeeded
\* and before the first row; a written status never changes within a request.
C8_Step ==
    /\ hdrWrites' > hdrWrites =>
        /\ thrown = NoPanic
        /\ \E ks \in KeyOrders(query), f \in LookupFaults :
            CompileKeys(ks, args.Order, f, EmptyBag) = Ok(conds)
        /\ ResolveColumns(first.args.Columns).ok
        /\ body = <<>>
        /\ pos = 0
        /\ status' = 200
    /\ (status # 0 /\ pc' # "table") => status' = status

\* C8: the dispatcher state machine: every rejection precedes the headers and
\* the body, the status-200 headers are written once, after compilation and
\* before the first row, and nothing changes the status afterwards.
C8_HeadersAfterCompile == []C8_Before /\ [][C8_Step]_vars

C8_Witness ==
    /\ pc = "aborted"
    /\ status = 200
    /\ hdrWrites = 1
    /\ thrown # NoPanic
    /\ count = 2

\* C9: address=X in mode EQ with a valid X that has no account entry does not
\* reject the request, and the query emits no row whatever the other
\* conditions, the order, the limit and the cursor are.
C9_UnknownAddressEq ==
    (pc # "idle" /\ AddressFilter(query, "", "tz1U")) =>
        /\ Compiled => (Len(Delivered) = 0 /\ count = 0 /\ RowIds(body) = <<>>)
        /\ pc = "done" => trailers[1].count = 0
        /\ (thrown # NoPanic /\ hdrWrites = 0) =>
            (faulty \/ (HasCursor(query) /\ ~IsNumeric(CursorValue(query))))

C9_Witness ==
    /\ pc = "done"
    /\ AddressFilter(query, "", "tz1U")
    /\ ~faulty
    /\ HasCursor(query)
    /\ Cardinality(table) = MaxRows
    /\ trailers[1].count = 0
    /\ trailers[1].error = ""

\* C10: address.ne=X with a valid X that has no account entry compiles to a
\* condition no row satisfies: the stream is empty.
C10_UnknownAddressNe ==
    (AddressFilter(query, "ne", "tz1U") /\ Compiled) =>
        (Len(Delivered) = 0 /\ RowIds(body) = <<>>)

\* the query carries an address list filter of mode m whose addresses are all
\* valid and all without account entry
UnknownAddressList(q, m) ==
    \E p \in q :
        /\ p.prefix = "address" /\ p.mode = m
        /\ \A i \in 1..Len(p.vals[1]) :
              p.vals[1][i] \in ValidAddresses \ DOMAIN AccountTable

\* C11: address.in and address.nin whose addresses are all valid and all
\* without account entry compile to a condition with an empty id list, which
\* no row satisfies under either mode: the query emits zero rows.
C11_EmptyAddressList ==
    \A m \in {"in", "nin"} :
        (UnknownAddressList(query, m) /\ Compiled) =>
            /\ \A c \in BagToSet(conds) : c.mode = m /\ c.list = <<>>
            /\ Len(Delivered) = 0
            /\ RowIds(body) = <<>>

\* C12: a failure of the storage layer before streaming begins (an account
\* lookup that fails while an address filter is compiled) ends the request
\* with an error response: the function never goes on to a response.
C12_StorageFailureRejects ==
    (faulty /\ pc \notin {"idle", "table", "columns", "filters"}) =>
        (~Compiled /\ thrown # NoPanic /\ hdrWrites = 0)

\* C13: a filter key that occurs k times with k values adds k conditions to
\* the AND-list, whatever filterable name it carries (address, time and the
\* percent columns among them).
C13_RepeatedKeysAnd ==
    \A p \in query :
        (query = {p} /\ p.prefix \in DOMAIN incomeSourceNames /\ Compiled) =>
            BagCardinality(conds) = Len(p.vals)

\* the query is the one percent filter luck_percent[.mode]=v
PercentFilter(q, mode, v) == q = {Param("luck_percent", mode, <<v>>)}

\* C14: luck_percent.gte=100 compiles to the condition luck_pct >= 10000: a
\* row that stores 9999 is not emitted and a row that stores 10000 is.
C14_PercentThreshold ==
    (PercentFilter(query, "gte", <<"1", "0", "0">>) /\ Compiled) =>
        /\ conds = SetToBag({Condition("l", "gte", 10000)})
        /\ \A r \in table :
              (r.l >= 10000) <=> (\E i \in 1..Len(Delivered) : Delivered[i] = r)

\* C15: percent round trip.  The text the encoder writes for a stored percent
\* value, taken as the value of a percent filter, compiles to the stored
\* value up to one unit of the last digit written.
C15_PercentRoundTrip ==
    \A r \in table :
        (PercentFilter(query, "", FormatHundredths(r.l)) /\ Compiled) =>
            \A c \in BagToSet(conds) : c.field = "l" /\ c.value - r.l \in -1..1

\* the query is one time-valued filter n[.mode]=t with a single time t
TimeFilter(q, n, mode, t) == q = {Param(n, mode, <<FormatInt(t)>>)}

\* the times a filter value can carry
FilterTimes == 0..(2 * MaxBlockTime + 1)

\* the height the specification gives a time: the index lookup up to the tip,
\* the extrapolation by the block time after it
ResolvedHeight(t) ==
    IF t <= tip.BestTime THEN LookupBlockHeightFromTime(t)
    ELSE tip.BestHeight + ((t - tip.BestTime) \div BlockTime)

\* C16: every time-valued filter (time, start_time, end_time) resolves its
\* time the same way: by the block-time index when the time is not after the
\* tip, by bestHeight + floor((t - bestTime) / blockTime) when it is; the
\* cycle of the condition is CycleFromHeight of that height.
C16_UniformTimeResolution ==
    \A n \in {"time", "start_time", "end_time"}, t \in FilterTimes :
        (TimeFilter(query, n, "", t) /\ Compiled) =>
            \A c \in BagToSet(conds) :
                c.field = "c" /\ c.value = CycleFromHeight(ResolvedHeight(t))

\* the query is the one range filter time.rg=a,b
TimeRange(q, a, b) ==
    q = {Param("time", "rg", <<FormatInt(a) \o <<",">> \o FormatInt(b)>>)}

\* C17: the cycle a time filter resolves to never decreases when the time
\* grows, also from a time up to the tip to a time after it, so the bounds of
\* a compiled time range are ordered like its times.
C17_TimeToCycleMonotone ==
    /\ \A t1, t2 \in FilterTimes :
          t1 <= t2 => TimeToCycle(t1) <= TimeToCycle(t2)
    /\ \A a, b \in FilterTimes :
          (TimeRange(query, a, b) /\ a <= b /\ Compiled) =>
              \A c \in BagToSet(conds) : c.mode = "rg" /\ c.from <= c.to

C17_Witness ==
    /\ TimeRange(query, 2, 9)
    /\ pc = "done"
    /\ 2 <= tip.BestTime
    /\ tip.BestHeight = MaxHeight
    /\ \E c \in BagToSet(conds) :
          /\ c.from < CycleFromHeight(tip.BestHeight)
          /\ c.to > CycleFromHeight(tip.BestHeight)

\* the cycle the specification gives a time
ResolvedCycle(t) == CycleFromHeight(ResolvedHeight(t))

\* the loop over the query parameters is over
AfterFilters == pc \notin {"idle", "table", "columns", "filters"}

\* C18: start_time=t compiles to cycle >= c(t), end_time=t to cycle <= c(t),
\* time=t in mode EQ to cycle = c(t), time.rg=a,b to the range from c(a) to
\* c(b) with both ends resolved on their own; start_time and end_time with a
\* mode other than EQ are rejected.
C18_TimeFilterModes ==
    /\ \A t \in FilterTimes :
          /\ (TimeFilter(query, "start_time", "", t) /\ Compiled) =>
                conds = SetToBag({Condition("c", "gte", ResolvedCycle(t))})
          /\ (TimeFilter(query, "end_time", "", t) /\ Compiled) =>
                conds = SetToBag({Condition("c", "lte", ResolvedCycle(t))})
          /\ (TimeFilter(query, "time", "", t) /\ Compiled) =>
                conds = SetToBag({Condition("c", "eq", ResolvedCycle(t))})
    /\ \A a, b \in FilterTimes :
          (TimeRange(query, a, b) /\ Compiled) =>
              conds = SetToBag({RangeCondition("c", ResolvedCycle(a), ResolvedCycle(b))})
    /\ \A p \in query :
          (p.prefix \in {"start_time", "end_time"} /\ p.mode # "" /\ AfterFilters) =>
              (~Compiled /\ thrown.status = 400)

\* the defects of one filter key, in the words of the rejection they cause
UnknownField(p) ==
    p.prefix \notin DOMAIN incomeSourceNames \cup ReservedKeys \cup {"cursor"}

UnknownMode(p) == p.mode # "" /\ p.mode \notin FilterModes

ValueFails(p) ==
    /\ p.prefix # "address"
    /\ \E i \in 1..Len(p.vals) :
          /\ p.vals[i] # <<"h", "e", "a", "d">>
          /\ \E j \in 1..Len(p.vals[i]) :
                ~IsDigit(p.vals[i][j]) /\ p.vals[i][j] \notin {".", ","}

ModeNotAllowed(p) ==
    \/ p.prefix \in {"start_time", "end_time"} /\ p.mode \notin {"", "eq"}
    \/ p.prefix = "address" /\ p.mode \notin {"", "eq", "ne", "in", "nin"}

\* the rejections of a query in the order of precedence of the specification
RejectionOrder ==
    <<"unknown column", "invalid filter mode", "invalid filter value",
      "invalid filter mode for column">>

HasDefect(p, msg) ==
    CASE msg = "unknown column" -> UnknownField(p)
      [] msg = "invalid filter mode" -> UnknownMode(p)
      [] msg = "invalid filter value" -> ValueFails(p)
      [] OTHER -> ModeNotAllowed(p)

\* the rejection the specification gives a query with a defect
FirstRejection(q) ==
    RejectionOrder[CHOOSE i \in 1..Len(RejectionOrder) :
        /\ \E p \in q : HasDefect(p, RejectionOrder[i])
        /\ \A j \in 1..(i - 1) : \A p \in q : ~HasDefect(p, RejectionOrder[j])]

\* C19: a request with several defects is rejected for the defect of highest
\* precedence (unknown field, then unknown mode, then a value that does not
\* coerce, then a mode the column does not allow), whatever the order in
\* which the parameters are visited; a key with an unknown field and an
\* unknown mode is reported as unknown field.
C19_RejectionPrecedence ==
    (/\ AfterFilters
     /\ ~faulty
     /\ \E p \in query, i \in 1..Len(RejectionOrder) : HasDefect(p, RejectionOrder[i]))
        => (~Compiled /\ thrown.msg = FirstRejection(query))

\* the error code the specification's taxonomy gives a rejection
TaxonomyCode(msg) ==
    CASE msg = "unknown column" -> "UNKNOWN_COLUMN"
      [] msg \in {"invalid filter mode", "invalid filter mode for column"} ->
            "INVALID_MODE"
      [] OTHER -> "PARAM_INVALID"

Translated == pc = "filters" \/ Compiled

\* C21: without requested columns the storage fetch set is the full list of
\* stored fields and the projection the caller sees is the alias list of the
\* registry, with the virtual columns address, start_time and end_time; with
\* requested columns each is mapped to its short tag, tags equal to "-" are
\* left out of the fetch set, and the projection stays as requested.
C21_ProjectionDefaults ==
    Translated =>
        IF first.args.Columns = <<>>
        THEN /\ srcNames = TableFieldNames
             /\ args.Columns = incomeAllAliases
             /\ {"address", "start_time", "end_time"} \subseteq SeqRange(args.Columns)
        ELSE /\ args.Columns = first.args.Columns
             /\ srcNames = SelectSeq([i \in 1..Len(args.Columns) |->
                                        incomeSourceNames[args.Columns[i]]],
                                     LAMBDA n : n # "-")

C21_Witness ==
    /\ pc = "done"
    /\ first.args.Columns = <<"address", "row_id", "start_time">>
    /\ srcNames = <<"A", "I", "c">>
    /\ count = MaxRows

-----------------------------------------------------------------------------
(* The row encoder of the income table: Income.MarshalJSONBrief and          *)
(* Income.MarshalCSV, called for one row with the projection of the request *)

EncTok(t) == [tok |-> t, text |-> <<>>]

ValTok(text) == [tok |-> "val", text |-> text]

\* the switch over the column name, for the columns of the model: [ok, text];
\* ok is FALSE in the default case
EncodedValue(v, row) ==
    CASE v = "row_id" -> [ok |-> TRUE, text |-> FormatUint(row.I)]
      [] v = "cycle" -> [ok |-> TRUE, text |-> FormatInt(row.c)]
      [] v = "account_id" -> [ok |-> TRUE, text |-> FormatUint(row.A)]
      [] v = "luck_percent" -> [ok |-> TRUE, text |-> FormatHundredths(row.l)]
      [] OTHER -> [ok |-> FALSE, text |-> <<>>]

RECURSIVE BriefLoop(_, _, _, _)
\* the loop of MarshalJSONBrief from column i on (i counts from 1)
BriefLoop(columns, row, i, buf) ==
    IF i > Len(columns) THEN buf
    ELSE LET e == EncodedValue(columns[i], row) IN
         IF ~e.ok THEN BriefLoop(columns, row, i + 1, buf)
         ELSE BriefLoop(columns, row, i + 1,
                        IF i < Len(columns)
                        THEN buf \o <<ValTok(e.text), EncTok(",")>>
                        ELSE Append(buf, ValTok(e.text)))

\* Income.MarshalJSONBrief
MarshalJSONBrief(columns, row) ==
    Append(BriefLoop(columns, row, 1, <<EncTok("[")>>), EncTok("]"))

\* Income.MarshalCSV: the fields of the record, "" where nothing was assigned
MarshalCSV(columns, row) ==
    [i \in 1..Len(columns) |-> ValTok(EncodedValue(columns[i], row).text)]

\* the names a projection can carry past the translation of the column names
\* (time has a short tag and no case in the encoders)
ProjectionNames == {"row_id", "cycle", "luck_percent", "time"}

Projections == UNION {[1..n -> ProjectionNames] : n \in 1..MaxColumns}

\* the rows of a full table
EncoderRows ==
    {[I |-> RowIdAt(i), c |-> CycleOfRow(RowIdAt(i)), A |-> a,
      l |-> LuckOfRow(RowIdAt(i))] : i \in 1..MaxRows, a \in AccountIds}

StreamParked ==
    /\ tip = TipOf(RegularChain)
    /\ table = {}
    /\ Idle
    /\ pages = <<>>
    /\ first = [args |-> args, query |-> query]
    /\ faulty = FALSE

EncoderInit ==
    /\ StreamParked
    /\ cancelled = NotCancelled
    /\ call \in {[fn |-> "Income", columns |-> cols, row |-> r, out |-> <<>>] :
                   cols \in Projections, r \in EncoderRows}

EncodeBrief ==
    /\ call.fn = "Income"
    /\ call' = [call EXCEPT !.fn = "MarshalJSONBrief",
                            !.out = MarshalJSONBrief(call.columns, call.row)]
    /\ UNCHANGED <<streamVars, cancelled>>

EncodeRecord ==
    /\ call.fn = "Income"
    /\ call' = [call EXCEPT !.fn = "MarshalCSV",
                            !.out = MarshalCSV(call.columns, call.row)]
    /\ UNCHANGED <<streamVars, cancelled>>

EncoderNext == EncodeBrief \/ EncodeRecord

EncoderSpec == EncoderInit /\ [][EncoderNext]_vars

\* the texts of the columns of a projection the encoder emits, in its order
RECURSIVE EmittedTexts(_, _)
EmittedTexts(columns, row) ==
    IF columns = <<>> THEN <<>>
    ELSE LET e == EncodedValue(Head(columns), row) IN
         (IF e.ok THEN <<ValTok(e.text)>> ELSE <<>>)
             \o EmittedTexts(Tail(columns), row)

RECURSIVE Separated(_)
\* values with one separator between two neighbours
Separated(vals) ==
    IF Len(vals) <= 1 THEN vals
    ELSE <<Head(vals), EncTok(",")>> \o Separated(Tail(vals))

\* C22: for a projection with a column the row encoder does not emit, at any
\* position, the brief JSON array and the CSV record of a row hold exactly the
\* emitted columns in projection order: no empty field in place of the
\* skipped column and no leading, doubled or trailing separator.
C22_SkippedColumns ==
    (call.fn # "none" /\ \E i \in 1..Len(call.columns) : call.columns[i] = "time") =>
        /\ call.fn = "MarshalJSONBrief" =>
              call.out = <<EncTok("[")>>
                          \o Separated(EmittedTexts(call.columns, call.row))
                          \o <<EncTok("]")>>
        /\ call.fn = "MarshalCSV" =>
              call.out = EmittedTexts(call.columns, call.row)

-----------------------------------------------------------------------------
(* Cancellation of a request while its rows are streamed                    *)

\* unfiltered requests with the default projection
CancelRequests ==
    {[args |-> ArgsOf("income", <<>>, l, "asc", f, {}), query |-> {}] :
        l \in 0..MaxLimit, f \in {"json", "csv"}}

CancelInit ==
    /\ LibIdle
    /\ tip = TipOf(RegularChain)
    /\ table \in Tables
    /\ Idle
    /\ pages = <<>>
    /\ first = [args |-> args, query |-> query]
    /\ faulty = FALSE

CancelRequest ==
    /\ pc = "idle"
    /\ \E r \in CancelRequests :
        /\ Start(r)
        /\ first' = r
    /\ pages' = <<>>
    /\ faulty' = FALSE

\* the deadline passes or the client disconnects while table.Stream runs
Cancel ==
    /\ pc = "stream"
    /\ ~cancelled.fired
    /\ cancelled' = [fired |-> TRUE, count |-> count]
    /\ UNCHANGED <<call, streamVars>>

\* table.Stream(ctx, q, fn) finds ctx done between two packs and returns
\* ctx.Err(); the row callbacks do not look at ctx
StreamCancelled ==
    /\ pc = "stream"
    /\ cancelled.fired
    /\ err' = "context canceled"
    /\ pc' = AfterStream(args.Format)
    /\ UNCHANGED <<libVars, tip, table, args, query, srcNames, conds, thrown, status,
                   hdrWrites, body, needComma, count, lastId, pos, trailers, pages,
                   first, faulty>>

CancelNext ==
    \/ CancelRequest
    \/ ResolveTable
    \/ TranslateColumns
    \/ CompileFilters
    \/ WriteHeaders
    \/ OpenArray
    \/ EncodeHeader
    \/ StreamRow
    \/ StreamFail
    \/ StreamEnd
    \/ Cancel
    \/ StreamCancelled
    \/ CloseArray
    \/ WriteTrailer
    \/ Recover

CancelSpec == CancelInit /\ [][CancelNext]_vars

\* C23: when the cancellation handle of the request fires while rows are
\* streamed, the iteration stops within one further row, the stop is no error
\* (like a reached limit), the JSON bracket is closed and the trailer carries
\* the rows emitted so far.
C23_CancelStops ==
    (cancelled.fired /\ thrown = NoPanic
        /\ err \notin {"decode", "encode", "iterator"}) =>
        /\ count <= cancelled.count + 1
        /\ pc = "done" =>
              /\ trailers[1].error = ""
              /\ trailers[1].count = count
              /\ args.Format = "json" => body[Len(body)].tok = "]"

-----------------------------------------------------------------------------
(* Indexer.ListAccountOpsCollapsed: the ops of an account, paged by op group *)

\* the bits of a cursor below the height
CursorShift == 16

\* the keys (height, op_p) the ops of the model carry, in table order
OpKeys == <<<<1, 0>>, <<1, 1>>, <<2, 0>>, <<2, 1>>>>

\* the ops of an account in the op table: sorted by height and op_p, op_n
\* counts the ops
OpTables ==
    {[i \in 1..Len(ks) |-> [height |-> OpKeys[ks[i]][1], op_p |-> OpKeys[ks[i]][2],
                            op_n |-> i]] :
        ks \in {k \in UNION {[1..n -> 1..Len(OpKeys)] : n \in 0..MaxOps} :
                   \A i \in 1..(Len(k) - 1) : k[i] <= k[i + 1]}}

\* the cursor of an op: height and op_n
OpCursor(height, opn) == height * 2^CursorShift + opn

\* the rows q.Stream delivers in ascending order: those after the cursor
OpStream(rows, cursor) ==
    LET height == cursor \div 2^CursorShift
        opn == cursor % 2^CursorShift
    IN  IF cursor > 0
        THEN SelectSeq(rows, LAMBDA op :
                 op.height > height \/ (op.height = height /\ op.op_n > opn))
        ELSE rows

\* mutant: the limit stops the stream at any row
StopAtLimitAnyRow(isNext, limit, n) == limit > 0 /\ n = limit

\* stop at first result after group end
StopAtLimit(isNext, limit, n) == isNext /\ limit > 0 /\ n = limit

\* the callback of q.Stream for the op at the head of the stream: the frame
\* after it, stop is TRUE when it returns io.EOF
OpsCallback(f, op) ==
    LET isFirst == f.lastP < 0
        isNext == op.op_p # f.lastP \/ op.height # f.lastHeight
        f1 == [f EXCEPT !.lastP = op.op_p, !.lastHeight = op.height,
                        !.pos = f.pos + 1]
        offset == IF f.Offset > 0 /\ isNext /\ ~isFirst THEN f.Offset - 1
                  ELSE f.Offset
        skip == f.Offset > 0 /\ (~(isNext /\ ~isFirst) \/ offset > 0)
        f2 == [f1 EXCEPT !.Offset = offset]
    IN  IF skip THEN f2
        ELSE IF StopAtLimit(isNext, f.Limit, f.count)
        THEN [f2 EXCEPT !.pc = "done"]
        ELSE [f2 EXCEPT !.ops = Append(f.ops, op),
                        !.count = IF isNext THEN f.count + 1 ELSE f.count]

OpsInit ==
    /\ StreamParked
    /\ cancelled = NotCancelled
    /\ call \in {[fn |-> "ListAccountOpsCollapsed", pc |-> "enter", rows |-> rows,
                   Cursor |-> c, Offset |-> o, Limit |-> l, request |-> o,
                   stream |-> <<>>, pos |-> 0, lastP |-> -1, lastHeight |-> 0,
                   count |-> 0, ops |-> <<>>, failed |-> FALSE] :
                     rows \in OpTables, c \in {0, OpCursor(1, 1)},
                     o \in 0..MaxOffset, l \in 0..MaxLimit}

\* cursor and offset are mutually exclusive; build the query
OpsEnter ==
    /\ call.pc = "enter"
    /\ call' = [call EXCEPT !.Offset = IF call.Cursor > 0 THEN 0 ELSE call.Offset,
                            !.stream = OpStream(call.rows, call.Cursor),
                            !.pc = "stream"]
    /\ UNCHANGED <<streamVars, cancelled>>

\* q.Stream calls the callback with the next op, which may fail to decode
OpsRow ==
    /\ call.pc = "stream"
    /\ call.pos < Len(call.stream)
    /\ \E decoded \in BOOLEAN :
        call' = IF decoded THEN OpsCallback(call, call.stream[call.pos + 1])
                ELSE [call EXCEPT !.pc = "done", !.failed = TRUE, !.ops = <<>>]
    /\ UNCHANGED <<streamVars, cancelled>>

\* q.Stream has delivered every op
OpsEnd ==
    /\ call.pc = "stream"
    /\ call.pos = Len(call.stream)
    /\ call' = [call EXCEPT !.pc = "done"]
    /\ UNCHANGED <<streamVars, cancelled>>

OpsNext == OpsEnter \/ OpsRow \/ OpsEnd

OpsSpec == OpsInit /\ [][OpsNext]_vars

\* the number of the op group of the i-th op of a stream: a group is a
\* maximal run of ops with the same height and op_p
GroupOf(stream, i) ==
    Cardinality({j \in 1..i :
        j = 1 \/ stream[j].height # stream[j - 1].height
              \/ stream[j].op_p # stream[j - 1].op_p})

\* C24: offset and limit count op groups: with cursor = 0 the call skips the
\* first offset groups and returns every op of the next limit groups (of all
\* remaining groups when limit = 0), so no group is returned in part; with
\* cursor > 0 the offset is ignored.
C24_CollapsedPaging ==
    (call.fn = "ListAccountOpsCollapsed" /\ call.pc = "done" /\ ~call.failed) =>
        LET stream == OpStream(call.rows, call.Cursor)
            offset == IF call.Cursor > 0 THEN 0 ELSE call.request
            wanted(i) ==
                /\ GroupOf(stream, i) > offset
                /\ call.Limit > 0 => GroupOf(stream, i) <= offset + call.Limit
        IN  call.ops = SelectSeq([i \in 1..Len(stream) |-> stream[i]],
                                LAMBDA op : wanted(op.op_n - (Len(call.rows) - Len(stream))))

C24_Witness ==
    /\ call.fn = "ListAccountOpsCollapsed"
    /\ call.pc = "done"
    /\ call.Cursor = 0
    /\ call.request = 1
    /\ call.Limit = 1
    /\ Len(call.rows) = MaxOps
    /\ Len(call.ops) = 2
    /\ call.pos = MaxOps

-----------------------------------------------------------------------------
(* model.Supply: the coin supply after each block *)

\* the blocks applied to one supply row
MaxUpdates == 2
\* the flows and ops of one block
MaxBlockItems == 1

\* the columns of a supply row
SupplyFields ==
    {"RowId", "Height", "Cycle", "Timestamp", "Total", "Activated", "Unclaimed", "Circulating", "Liquid", "Delegated",
     "Staking", "Shielded", "ActiveDelegated", "ActiveStaking",
     "InactiveDelegated", "InactiveStaking", "Minted", "MintedBaking",
     "MintedEndorsing", "MintedSeeding", "MintedAirdrop", "MintedSubsidy",
     "Burned", "BurnedDoubleBaking", "BurnedDoubleEndorse", "BurnedOrigination",
     "BurnedAllocation", "BurnedSeedMiss", "BurnedStorage", "BurnedExplicit",
     "Frozen", "FrozenDeposits", "FrozenRewards", "FrozenFees"}

ZeroSupply == [f \in SupplyFields |-> 0]

\* the supply row before the first block: nothing, or unclaimed fundraiser coins
GenesisSupplies ==
    {[ZeroSupply EXCEPT !.RowId = 1],
     [ZeroSupply EXCEPT !.RowId = 1, !.Total = 10, !.Unclaimed = 4, !.Circulating = 6,
                        !.Liquid = 6]}

FlowTypes ==
    {"Activation", "NonceRevelation", "Invoice", "Airdrop", "Subsidy",
     "Denunciation", "Transaction", "Baking"}

FlowCategories == {"Deposits", "Rewards", "Fees", "Balance"}

NoFlow ==
    [Operation |-> "Baking", Category |-> "Balance", AmountIn |-> 0,
     AmountOut |-> 0, IsBurned |-> FALSE, IsShielded |-> FALSE,
     IsUnshielded |-> FALSE]

\* the flows of a block
Flows ==
    {[NoFlow EXCEPT !.Operation = t, !.AmountIn = 1] :
        t \in {"Activation", "Invoice", "Airdrop", "Subsidy", "Baking"}}
    \cup {[NoFlow EXCEPT !.Operation = "NonceRevelation", !.Category = c,
                         !.AmountOut = 1, !.IsBurned = b] :
              c \in {"Rewards", "Fees"}, b \in BOOLEAN}
    \cup {[NoFlow EXCEPT !.Operation = "Denunciation", !.Category = c,
                         !.AmountOut = 2, !.AmountIn = 1] :
              c \in FlowCategories \ {"Balance"}}
    \cup {[NoFlow EXCEPT !.Operation = "Transaction", !.AmountIn = 1,
                         !.IsShielded = TRUE],
          [NoFlow EXCEPT !.Operation = "Transaction", !.AmountOut = 1,
                         !.IsUnshielded = TRUE]}

OpTypes ==
    {"SeedNonceRevelation", "Endorsement", "DoubleBakingEvidence",
     "DoubleEndorsementEvidence", "Origination", "Transaction",
     "RegisterConstant", "Delegation"}

\* the ops of a block; StorageBurn is b.Params.CostPerByte * op.StoragePaid,
\* ExplicitBurn is the volume the RPC op of a transaction
\* sends to the zero address, directly and in its internal results
BlockOps ==
    {[Type |-> t, Reward |-> 1, Deposit |-> 1, Burned |-> 2, StorageBurn |-> 1,
      IsSuccess |-> ok[1], OpL |-> ok[2], ExplicitBurn |-> 1] :
        t \in {"Origination", "Transaction"},
        ok \in {<<TRUE, 0>>, <<FALSE, 0>>, <<TRUE, -1>>}}
    \cup {[Type |-> t, Reward |-> 1, Deposit |-> 1, Burned |-> 2, StorageBurn |-> 1,
           IsSuccess |-> TRUE, OpL |-> 0, ExplicitBurn |-> 0] :
              t \in OpTypes \ {"Origination", "Transaction"}}

\* the header counters of a block
BlockHeaders ==
    {[Reward |-> 0, BurnedSupply |-> 0, Deposit |-> 0, UnfrozenDeposits |-> 0,
      UnfrozenRewards |-> 0, Fee |-> 0, UnfrozenFees |-> 0],
     [Reward |-> 3, BurnedSupply |-> 2, Deposit |-> 2, UnfrozenDeposits |-> 1,
      UnfrozenRewards |-> 1, Fee |-> 2, UnfrozenFees |-> 1]}

\* the delegates of a block: StakingBalance(), DelegatedBalance, IsActiveDelegate
Delegates ==
    <<[sb |-> 3, db |-> 1, IsActiveDelegate |-> TRUE],
      [sb |-> 2, db |-> 1, IsActiveDelegate |-> FALSE]>>

SeqsUpTo(S, n) == UNION {[1..k -> S] : k \in 0..n}

\* the blocks at a height
Blocks(height) ==
    {[Height |-> height, Cycle |-> CycleFromHeight(height),
      Timestamp |-> height * BlockTime, hdr |-> h, Flows |-> fo[1], Ops |-> fo[2]] :
        h \in BlockHeaders,
        fo \in {x \in SeqsUpTo(Flows, MaxBlockItems)
                         \X SeqsUpTo(BlockOps, MaxBlockItems) :
                    Len(x[1]) + Len(x[2]) <= MaxBlockItems}}

\* s.<field> += d
Add(s, field, d) == [s EXCEPT ![field] = @ + d]

\* baking rewards and the overall burn of the block
ApplyHeader(s, h) ==
    [s EXCEPT !.Total = @ + h.Reward - h.BurnedSupply,
              !.Minted = @ + h.Reward,
              !.FrozenDeposits = @ + h.Deposit - h.UnfrozenDeposits,
              !.FrozenRewards = @ + h.Reward - h.UnfrozenRewards,
              !.FrozenFees = @ + h.Fee - h.UnfrozenFees,
              !.Burned = @ + h.BurnedSupply]

\* mutant: an airdrop grows the total supply and not the minted supply
ApplyFlowUnmintedAirdrop(s, f) ==
    IF f.Operation \in {"Invoice", "Airdrop"} THEN Add(s, "Total", f.AmountIn)
    ELSE s

\* activated/unclaimed, invoice/airdrop from flows
ApplyFlow(s, f) ==
    CASE f.Operation = "Activation" ->
            Add(Add(s, "Activated", f.AmountIn), "Unclaimed", -f.AmountIn)
      [] f.Operation = "NonceRevelation" ->
            IF f.IsBurned
            THEN LET s1 == Add(Add(s, "BurnedSeedMiss", f.AmountOut), "Frozen",
                               -f.AmountOut)
                 IN  CASE f.Category = "Rewards" ->
                              Add(s1, "FrozenRewards", -f.AmountOut)
                       [] f.Category = "Fees" -> Add(s1, "FrozenFees", -f.AmountOut)
                       [] OTHER -> s1
            ELSE s
      [] f.Operation \in {"Invoice", "Airdrop"} ->
            Add(Add(Add(s, "Total", f.AmountIn), "MintedAirdrop", f.AmountIn),
                "Minted", f.AmountIn)
      [] f.Operation = "Subsidy" ->
            Add(Add(Add(s, "Total", f.AmountIn), "MintedSubsidy", f.AmountIn),
                "Minted", f.AmountIn)
      [] f.Operation = "Denunciation" ->
            CASE f.Category = "Deposits" -> Add(s, "FrozenDeposits", -f.AmountOut)
              [] f.Category = "Rewards" ->
                    Add(Add(s, "FrozenRewards", -f.AmountOut), "FrozenRewards",
                        f.AmountIn)
              [] f.Category = "Fees" -> Add(s, "FrozenFees", -f.AmountOut)
              [] OTHER -> s
      [] f.Operation = "Transaction" ->
            LET s1 == IF f.IsShielded THEN Add(s, "Shielded", f.AmountIn) ELSE s
            IN  IF f.IsUnshielded THEN Add(s1, "Shielded", -f.AmountOut) ELSE s1
      [] OTHER -> s

\* use ops to update non-baking deposits/rewards and individual burn details
ApplyOp(s, op) ==
    LET storageBurn == op.StorageBurn
    IN  CASE op.Type = "SeedNonceRevelation" ->
                Add(Add(Add(Add(s, "MintedSeeding", op.Reward), "Total", op.Reward),
                        "Minted", op.Reward), "FrozenRewards", op.Reward)
          [] op.Type = "Endorsement" ->
                Add(Add(Add(Add(Add(s, "MintedEndorsing", op.Reward), "Total",
                                    op.Reward), "Minted", op.Reward),
                        "FrozenDeposits", op.Deposit), "FrozenRewards", op.Reward)
          [] op.Type = "DoubleBakingEvidence" ->
                Add(s, "BurnedDoubleBaking", op.Burned)
          [] op.Type = "DoubleEndorsementEvidence" ->
                Add(s, "BurnedDoubleEndorse", op.Burned)
          [] op.Type = "Origination" ->
                IF op.IsSuccess /\ op.OpL >= 0
                THEN Add(Add(s, "BurnedOrigination", op.Burned - storageBurn),
                         "BurnedStorage", storageBurn)
                ELSE s
          [] op.Type = "Transaction" ->
                IF op.IsSuccess /\ op.OpL >= 0
                THEN Add(Add(Add(s, "BurnedAllocation", op.Burned - storageBurn),
                             "BurnedStorage", storageBurn),
                         "BurnedExplicit", op.ExplicitBurn)
                ELSE s
          [] op.Type = "RegisterConstant" -> Add(s, "BurnedStorage", op.Burned)
          [] OTHER -> s

RECURSIVE ApplyFlows(_, _)
ApplyFlows(s, fs) ==
    IF fs = <<>> THEN s ELSE ApplyFlows(ApplyFlow(s, Head(fs)), Tail(fs))

RECURSIVE ApplyOps(_, _)
ApplyOps(s, os) ==
    IF os = <<>> THEN s ELSE ApplyOps(ApplyOp(s, Head(os)), Tail(os))

RECURSIVE ApplyDelegates(_, _)
\* update supply totals across all delegates
ApplyDelegates(s, ds) ==
    IF ds = <<>> THEN s
    ELSE LET acc == Head(ds)
             s1 == Add(Add(s, "Staking", acc.sb), "Delegated", acc.db)
             s2 == IF acc.IsActiveDelegate
                   THEN Add(Add(s1, "ActiveStaking", acc.sb), "ActiveDelegated",
                            acc.db)
                   ELSE Add(Add(s1, "InactiveStaking", acc.sb),
                            "InactiveDelegated", acc.db)
         IN  ApplyDelegates(s2, Tail(ds))

\* mutant: the frozen total keeps the running value of the flows
DeriveTotalsRunningFrozen(s) ==
    LET s1 == [s EXCEPT !.MintedBaking = s.Minted - s.MintedSeeding
                            - s.MintedEndorsing - s.MintedAirdrop - s.MintedSubsidy]
        s2 == [s1 EXCEPT !.Circulating = s1.Total - s1.Unclaimed]
    IN  [s2 EXCEPT !.Liquid = s2.Total - s2.Frozen - s2.Unclaimed]

\* add frozen coins, baking rewards, circulating and liquid supply
DeriveTotals(s) ==
    LET s1 == [s EXCEPT !.Frozen = s.FrozenDeposits + s.FrozenFees + s.FrozenRewards]
        s2 == [s1 EXCEPT !.MintedBaking = s1.Minted - s1.MintedSeeding
                            - s1.MintedEndorsing - s1.MintedAirdrop - s1.MintedSubsidy]
        s3 == [s2 EXCEPT !.Circulating = s2.Total - s2.Unclaimed]
    IN  [s3 EXCEPT !.Liquid = s3.Total - s3.Frozen - s3.Unclaimed]

\* Supply.Update
Update(s, b, delegates) ==
    LET s0 == [s EXCEPT !.RowId = 0, !.Height = b.Height, !.Cycle = b.Cycle,
                        !.Timestamp = b.Timestamp]
        s1 == ApplyOps(ApplyFlows(ApplyHeader(s0, b.hdr), b.Flows), b.Ops)
        s2 == [s1 EXCEPT !.Staking = 0, !.Delegated = 0, !.ActiveStaking = 0,
                         !.ActiveDelegated = 0, !.InactiveStaking = 0,
                         !.InactiveDelegated = 0]
    IN  DeriveTotals(ApplyDelegates(s2, delegates))

SupplyInit ==
    /\ StreamParked
    /\ cancelled = NotCancelled
    /\ call \in {[fn |-> "Supply", s |-> s, updates |-> 0, block |-> <<>>] :
                   s \in GenesisSupplies}

SupplyUpdate ==
    /\ call.fn = "Supply"
    /\ call.updates < MaxUpdates
    /\ \E b \in Blocks(call.updates + 1) :
        call' = [call EXCEPT !.s = Update(call.s, b, Delegates),
                             !.updates = call.updates + 1,
                             !.block = <<b>>]
    /\ UNCHANGED <<streamVars, cancelled>>

SupplyNext == SupplyUpdate

SupplySpec == SupplyInit /\ [][SupplyNext]_vars

\* C25: after Update the derived counters are the sums of their parts:
\* Frozen = FrozenDeposits + FrozenFees + FrozenRewards, Circulating = Total -
\* Unclaimed, Liquid = Total - Frozen - Unclaimed, MintedBaking = Minted less
\* the seeding, endorsing, airdrop and subsidy mints.
C25_DerivedTotals ==
    (call.fn = "Supply" /\ call.updates > 0) =>
        LET s == call.s
        IN  /\ s.Frozen = s.FrozenDeposits + s.FrozenFees + s.FrozenRewards
            /\ s.Circulating = s.Total - s.Unclaimed
            /\ s.Liquid = s.Total - s.Frozen - s.Unclaimed
            /\ s.MintedBaking = s.Minted - s.MintedSeeding - s.MintedEndorsing
                                  - s.MintedAirdrop - s.MintedSubsidy

C25_Witness ==
    /\ call.fn = "Supply"
    /\ call.updates = MaxUpdates
    /\ call.block # <<>>
    /\ call.block[1].Flows # <<>>
    /\ call.block[1].Flows[1].Operation = "NonceRevelation"
    /\ call.block[1].Flows[1].IsBurned
    /\ call.s.BurnedSeedMiss > 0
    /\ call.s.Frozen > 0

\* Total - Minted + Burned of a supply row
Conserved(s) == s.Total - s.Minted + s.Burned

\* C26: every Update call leaves Total - Minted + Burned as it was, whatever
\* flows and ops the block carries.
C26_Conservation ==
    [][call.fn = "Supply" => Conserved(call'.s) = Conserved(call.s)]_vars

C26_Witness ==
    /\ call.fn = "Supply"
    /\ call.updates = MaxUpdates
    /\ call.block # <<>>
    /\ call.block[1].hdr.BurnedSupply > 0
    /\ call.block[1].Flows # <<>>
    /\ call.block[1].Flows[1].Operation = "Airdrop"
    /\ call.s.MintedAirdrop > 0
    /\ Conserved(call.s) = 10

-----------------------------------------------------------------------------
(* Indexer.ListHistoricBigmapKeys: a window of the cached history of a bigmap *)

\* the entries of a cached bigmap history
MaxHist == 4

\* int(x) of a uint x: the same bits read as a signed integer
UintToInt(x) == IF x >= 2^(UintBits - 1) THEN x - 2^UintBits ELSE x

\* a - b and a + b on uint
UintSub(a, b) == (a - b) % 2^UintBits
UintAdd(a, b) == (a + b) % 2^UintBits

\* util.Max
MaxOf(a, b) == IF a > b THEN a ELSE b

\* the bounds from and to handed to hist.Range
HistoricWindow(order, l, offset, limit) ==
    IF order = "asc"
    THEN [from |-> UintToInt(offset), to |-> UintToInt(UintAdd(offset, limit))]
    ELSE LET from == MaxOf(0, l - UintToInt(UintSub(offset, limit)))
         IN  [from |-> from, to |-> from + UintToInt(limit)]

\* hist.Range(from, to): the entries at positions from .. to-1, counted from 0;
\* with bounds outside the history the call returns the entries in range or
\* panics
HistoricRange(hist, from, to) ==
    LET lo == MaxOf(0, from)
        hi == IF to > Len(hist) THEN Len(hist) ELSE to
        clamped == [items |-> SubSeq(hist, lo + 1, hi), panicked |-> FALSE]
    IN  IF 0 <= from /\ from <= to /\ to <= Len(hist)
        THEN {clamped}
        ELSE {clamped, [items |-> <<>>, panicked |-> TRUE]}

\* hist.Get(key): the entry of a key, if the history has it
HistoricGet(hist, key) ==
    [items |-> SelectSeq(hist, LAMBDA item : item = key), panicked |-> FALSE]

HistoricInit ==
    /\ StreamParked
    /\ cancelled = NotCancelled
    /\ call \in {[fn |-> "ListHistoricBigmapKeys", pc |-> "enter",
                  hist |-> [i \in 1..l |-> i], Cursor |-> c, Offset |-> o,
                  Limit |-> n, Order |-> ord, BigmapKey |-> k, items |-> <<>>,
                  panicked |-> FALSE, failed |-> FALSE] :
                    l \in 0..MaxHist, c \in {0, 2}, o \in 0..MaxOffset,
                    n \in 0..MaxLimit, ord \in {"asc", "desc"}, k \in {0, 1}}

\* the history of the bigmap cannot be loaded into the cache
HistoricLoadFails ==
    /\ call.fn = "ListHistoricBigmapKeys"
    /\ call.pc = "enter"
    /\ call' = [call EXCEPT !.pc = "done", !.failed = TRUE]
    /\ UNCHANGED <<streamVars, cancelled>>

\* the history is cached: get the window from the cache, maybe reverse it
HistoricList ==
    /\ call.fn = "ListHistoricBigmapKeys"
    /\ call.pc = "enter"
    /\ LET offset == IF call.Cursor > 0 THEN call.Cursor - 1 ELSE call.Offset
           w == HistoricWindow(call.Order, Len(call.hist), offset, call.Limit)
       IN  \E out \in (IF call.BigmapKey > 0
                       THEN {HistoricGet(call.hist, call.BigmapKey)}
                       ELSE HistoricRange(call.hist, w.from, w.to)) :
               call' = [call EXCEPT !.pc = "done",
                                    !.Offset = offset,
                                    !.panicked = out.panicked,
                                    !.items = IF call.Order = "desc"
                                              THEN Reverse(out.items)
                                              ELSE out.items]
    /\ UNCHANGED <<streamVars, cancelled>>

HistoricNext == HistoricLoadFails \/ HistoricList

HistoricSpec == HistoricInit /\ [][HistoricNext]_vars

\* C27: in descending order the call returns the mirror image of ascending
\* order: for a history of l entries, offset o and limit n, without a key
\* filter, the entries at the ascending positions max(0, l-o-n) .. l-o-1 in
\* reverse order, for every o and n.
C27_DescMirror ==
    (/\ call.fn = "ListHistoricBigmapKeys"
     /\ call.pc = "done"
     /\ ~call.failed
     /\ call.Order = "desc"
     /\ call.BigmapKey = 0
     /\ call.Cursor = 0) =>
        LET l == Len(call.hist)
        IN  /\ ~call.panicked
            /\ call.items = Reverse(SubSeq(call.hist,
                                MaxOf(0, l - call.Offset - call.Limit) + 1,
                                l - call.Offset))

-----------------------------------------------------------------------------
(* Indexer.LookupBlockId: the hash and height of the block an identifier names *)

\* the block identifiers of a request: head, block hashes (well-formed ones
\* name the block at a height, or none for heights above the tip), a string
\* with the prefix of a hash that does not parse, heights, and text
BlockIdents ==
    {[kind |-> "head", n |-> 0]}
    \cup {[kind |-> "hash", n |-> h] : h \in 1..(MaxHeight + 1)}
    \cup {[kind |-> "badhash", n |-> 0], [kind |-> "text", n |-> 0]}
    \cup {[kind |-> "height", n |-> h] : h \in -1..(MaxHeight + 1)}

\* a block pointer is nil or a block of the chain
NilBlock == [nil |-> TRUE, Hash |-> 0, Height |-> 0]

\* the block table of a chain with best blocks 1 .. best; the hash of a block
\* stands for its height
BlockAt(best, h) ==
    IF h \in 1..best THEN [nil |-> FALSE, Hash |-> h, Height |-> h] ELSE NilBlock

\* the outcomes of Indexer.BlockByHash for a valid hash: the table cannot be
\* opened or the query fails (nil, err); no row matches (nil, ErrNoBlockEntry);
\* the block
BlockByHash(best, hash) ==
    {[b |-> NilBlock, err |-> "database"]}
    \cup (IF BlockAt(best, hash).nil
          THEN {[b |-> NilBlock, err |-> "ErrNoBlockEntry"]}
          ELSE {[b |-> BlockAt(best, hash), err |-> "nil"]})

\* the outcomes of Indexer.BlockByHeight
BlockByHeight(best, h) ==
    {[b |-> NilBlock, err |-> "database"]}
    \cup (IF BlockAt(best, h).nil
          THEN {[b |-> NilBlock, err |-> "ErrNoBlockEntry"]}
          ELSE {[b |-> BlockAt(best, h), err |-> "nil"]})

\* Indexer.LookupBlockHash, from cache: the zero hash for a height without block
LookupBlockHash(best, h) == BlockAt(best, h).Hash

\* the results of a call: hash, height and error, or a nil pointer dereference
BlockIdResult(hash, height, e) ==
    [Hash |-> hash, Height |-> height, err |-> e, panicked |-> FALSE]

NilDereference == [Hash |-> 0, Height |-> 0, err |-> "nil", panicked |-> TRUE]

\* case blockIdent == "head": the block at the height of the tip
LookupHead(best) ==
    {IF r.err # "nil" THEN BlockIdResult(0, 0, r.err)
     ELSE BlockIdResult(r.b.Hash, r.b.Height, "nil") :
        r \in BlockByHeight(best, best)}

\* case of a block hash: the error of BlockByHash is dropped and the fields
\* of the block it returned are read
LookupHash(best, ident) ==
    IF ident.kind = "badhash" THEN {BlockIdResult(0, 0, "ErrInvalidBlockHash")}
    ELSE {IF r.b.nil THEN NilDereference
          ELSE BlockIdResult(r.b.Hash, r.b.Height, "nil") :
             r \in BlockByHash(best, ident.n)}

\* default: try parsing as height
LookupHeight(best, ident) ==
    IF ident.kind # "height" THEN {BlockIdResult(0, 0, "ErrInvalidBlockHeight")}
    ELSE {BlockIdResult(LookupBlockHash(best, ident.n), ident.n, "nil")}

BlockIdInit ==
    /\ StreamParked
    /\ cancelled = NotCancelled
    /\ call \in {[fn |-> "LookupBlockId", pc |-> "switch", best |-> best,
                  blockIdent |-> id, result |-> BlockIdResult(0, 0, "nil")] :
                    best \in 1..MaxHeight, id \in BlockIdents}

\* switch true: the case of the identifier
BlockIdSwitch ==
    /\ call.fn = "LookupBlockId"
    /\ call.pc = "switch"
    /\ call' = [call EXCEPT !.pc =
                    CASE call.blockIdent.kind = "head" -> "head"
                      [] call.blockIdent.kind \in {"hash", "badhash"} -> "hash"
                      [] OTHER -> "height"]
    /\ UNCHANGED <<streamVars, cancelled>>

BlockIdHead ==
    /\ call.fn = "LookupBlockId"
    /\ call.pc = "head"
    /\ \E r \in LookupHead(call.best) :
        call' = [call EXCEPT !.pc = "done", !.result = r]
    /\ UNCHANGED <<streamVars, cancelled>>

BlockIdHash ==
    /\ call.fn = "LookupBlockId"
    /\ call.pc = "hash"
    /\ \E r \in LookupHash(call.best, call.blockIdent) :
        call' = [call EXCEPT !.pc = "done", !.result = r]
    /\ UNCHANGED <<streamVars, cancelled>>

BlockIdHeight ==
    /\ call.fn = "LookupBlockId"
    /\ call.pc = "height"
    /\ \E r \in LookupHeight(call.best, call.blockIdent) :
        call' = [call EXCEPT !.pc = "done", !.result = r]
    /\ UNCHANGED <<streamVars, cancelled>>

BlockIdNext == BlockIdSwitch \/ BlockIdHead \/ BlockIdHash \/ BlockIdHeight

BlockIdSpec == BlockIdInit /\ [][BlockIdNext]_vars

\* C28: LookupBlockId returns the hash and height of an existing block with a
\* nil error, or an error; for a well-formed hash it never reads the fields
\* of a missing block.
C28_BlockOrError ==
    (call.fn = "LookupBlockId" /\ call.pc = "done") =>
        /\ ~call.result.panicked
        /\ call.result.err = "nil" =>
              /\ call.result.Height \in 1..call.best
              /\ call.result.Hash = BlockAt(call.best, call.result.Height).Hash

-----------------------------------------------------------------------------
(* ListBakers: the list of bakers, or random suggestions for a delegator *)

\* the bakers of the chain
MaxBakers == 3

\* a baker as the filters of the list see it: with a public or a private
\* alias, without alias, not delegatable, or without free staking capacity
BakerKinds == {"public", "private", "noalias", "nondelegatable", "full"}

\* the bakers Indexer.ListBakers returns, in table order
BakerTables ==
    UNION {{[i \in 1..k |-> [Id |-> i, kind |-> kinds[i]]] :
               kinds \in [1..k -> BakerKinds]} : k \in 0..MaxBakers}

\* args.Suggest: none, or an address whose account cannot be found, is not
\* funded, is a baker itself, or delegates to the baker BakerId (0: to none)
Suggests ==
    {[kind |-> k, BakerId |-> 0] : k \in {"none", "missing", "unfunded", "baker"}}
    \cup {[kind |-> "account", BakerId |-> b] : b \in 0..1}

\* filter bakers: does the loop append baker v to bkr
BakerPasses(v, suggest) ==
    IF suggest.kind = "none" THEN TRUE
    ELSE /\ v.kind \notin {"private", "noalias"}     \* status public
         /\ v.kind # "nondelegatable"
         /\ v.kind # "full"                          \* filter by capacity
         /\ suggest.BakerId # v.Id                   \* the current baker

\* the ids of the bakers that pass the filters, in table order
FilterBakers(bakers, suggest) ==
    LET passing == SelectSeq(bakers, LAMBDA v : BakerPasses(v, suggest))
    IN  [i \in 1..Len(passing) |-> passing[i].Id]

\* bkr without the element at index idx, counted from 0
RemoveAt(bkr, idx) == SubSeq(bkr, 1, idx) \o SubSeq(bkr, idx + 2, Len(bkr))

\* util.Min
MinOf(a, b) == IF a < b THEN a ELSE b

BakersInit ==
    /\ StreamParked
    /\ cancelled = NotCancelled
    /\ call \in {[fn |-> "ListBakers", pc |-> "load", bakers |-> bs,
                  suggest |-> s, Limit |-> l, Order |-> ord, bkr |-> <<>>,
                  list |-> <<>>, clamped |-> 0, status |-> 0] :
                    bs \in BakerTables, s \in Suggests, l \in 0..MaxLimit,
                    ord \in {"asc", "desc"}}

\* load suggest account: the request is refused for an unknown, an empty or a
\* baker account
BakersRefuse ==
    /\ call.fn = "ListBakers"
    /\ call.pc = "load"
    /\ call.suggest.kind \in {"missing", "unfunded", "baker"}
    /\ call' = [call EXCEPT !.pc = "panic",
                            !.status = IF call.suggest.kind = "missing"
                                       THEN 404 ELSE 409]
    /\ UNCHANGED <<streamVars, cancelled>>

\* the limit of a suggestion is clamped by the configuration, then the bakers
\* are loaded and filtered; the limit breaks the loop only when not in
\* suggest mode
BakersFilter ==
    /\ call.fn = "ListBakers"
    /\ call.pc = "load"
    /\ call.suggest.kind \in {"none", "account"}
    /\ \E l \in (IF call.suggest.kind = "none" THEN {call.Limit}
                 ELSE 0..MaxLimit) :
        LET passing == FilterBakers(call.bakers, call.suggest)
        IN  call' = [call EXCEPT
                !.pc = "result",
                !.Limit = l,
                !.clamped = l,
                !.bkr = IF call.suggest.kind = "none" /\ l > 0
                        THEN SubSeq(passing, 1, MinOf(l, Len(passing)))
                        ELSE passing]
    /\ UNCHANGED <<streamVars, cancelled>>

\* randomize suggestion: one round of the loop draws a random baker from bkr;
\* rand.Intn panics when bkr is empty
BakersDraw ==
    /\ call.fn = "ListBakers"
    /\ call.pc = "result"
    /\ call.suggest.kind = "account"
    /\ call.Limit > 0
    /\ IF Len(call.bkr) = 0
       THEN call' = [call EXCEPT !.pc = "panic", !.status = 500]
       ELSE \E idx \in 0..(Len(call.bkr) - 1) :
               call' = [call EXCEPT !.list = Append(call.list, call.bkr[idx + 1]),
                                    !.bkr = RemoveAt(call.bkr, idx),
                                    !.Limit = call.Limit - 1]
    /\ UNCHANGED <<streamVars, cancelled>>

\* the suggestion is complete
BakersSuggested ==
    /\ call.fn = "ListBakers"
    /\ call.pc = "result"
    /\ call.suggest.kind = "account"
    /\ call.Limit = 0
    /\ call' = [call EXCEPT !.pc = "done", !.status = 200]
    /\ UNCHANGED <<streamVars, cancelled>>

\* not in suggest mode: the first Limit bakers, sorted by id
BakersSorted ==
    /\ call.fn = "ListBakers"
    /\ call.pc = "result"
    /\ call.suggest.kind = "none"
    /\ LET cut == IF call.Limit > 0
                  THEN SubSeq(call.bkr, 1, MinOf(call.Limit, Len(call.bkr)))
                  ELSE call.bkr
       IN  call' = [call EXCEPT !.pc = "done", !.status = 200,
                                !.list = IF call.Order = "asc" THEN cut
                                         ELSE Reverse(cut)]
    /\ UNCHANGED <<streamVars, cancelled>>

BakersNext ==
    BakersRefuse \/ BakersFilter \/ BakersDraw \/ BakersSuggested \/ BakersSorted

BakersSpec == BakersInit /\ [][BakersNext]_vars

\* C29: in suggest mode with a clamped limit L > 0 and n bakers that pass
\* the filters the call ends normally and returns min(L, n) distinct bakers
\* drawn from those n, also when n < L and when n = 0.
C29_SuggestDraw ==
    (/\ call.fn = "ListBakers"
     /\ call.pc \in {"done", "panic"}
     /\ call.suggest.kind = "account"
     /\ call.clamped > 0) =>
        LET passing == FilterBakers(call.bakers, call.suggest)
        IN  /\ call.pc = "done"
            /\ Len(call.list) = MinOf(call.clamped, Len(passing))
            /\ \A i, j \in 1..Len(call.list) :
                  call.list[i] = call.list[j] => i = j
            /\ \A i \in 1..Len(call.list) :
                  \E k \in 1..Len(passing) : call.list[i] = passing[k]

-----------------------------------------------------------------------------
(* Indexer.UpsertMetadata: update the metadata rows that exist, insert the rest *)

\* the entries of one call
MaxEntries == 2

\* address, asset_id and is_asset of a metadata row
MetadataKeys ==
    {[Address |-> a, AssetId |-> 0, IsAsset |-> FALSE] : a \in 1..2}
    \cup {[Address |-> 1, AssetId |-> 1, IsAsset |-> TRUE]}

\* the entries of a call; an entry stands for its position in the input
MetadataEntries == UNION {[1..k -> MetadataKeys] : k \in 0..MaxEntries}

\* the metadata table: each address/asset combination is unique, the row id
\* of a row is its position
MetadataTables ==
    {t \in UNION {[1..k -> MetadataKeys] : k \in 0..Cardinality(MetadataKeys)} :
        \A i, j \in 1..Len(t) : t[i] = t[j] => i = j}

\* find next match: the index into match of the first entry with the
\* address, asset id and kind of the table row, counted from 0, or -1
FindMatch(entries, match, md) ==
    LET hits == {i \in 1..Len(match) : entries[match[i]] = md}
    IN  IF hits = {} THEN -1
        ELSE (CHOOSE i \in hits : \A j \in hits : i <= j) - 1

\* the callback of the stream for the table row with id rowId
UpsertCallback(f, rowId) ==
    LET md == f.table[rowId]
        idx == FindMatch(f.entries, f.match, md)
        f1 == [f EXCEPT !.pos = rowId]
    IN  IF idx < 0 THEN f1
        ELSE LET rest == SubSeq(f.match, 1, idx)
                            \o SubSeq(f.match, idx + 2, Len(f.match))
             IN  [f1 EXCEPT !.upd = Append(f.upd, [entry |-> f.match[idx + 1],
                                                   RowId |-> rowId]),
                            !.match = rest,
                            !.pc = IF rest = <<>> THEN "write" ELSE "stream"]

UpsertInit ==
    /\ StreamParked
    /\ cancelled = NotCancelled
    /\ call \in {[fn |-> "UpsertMetadata", pc |-> "stream", entries |-> es,
                  table |-> t, pos |-> 0, match |-> [i \in 1..Len(es) |-> i],
                  upd |-> <<>>, updated |-> {}, inserted |-> {}, err |-> "nil"] :
                    es \in MetadataEntries, t \in MetadataTables}

\* the stream delivers the next table row, which may fail to decode
UpsertRow ==
    /\ call.fn = "UpsertMetadata"
    /\ call.pc = "stream"
    /\ call.pos < Len(call.table)
    /\ \E decoded \in BOOLEAN :
        call' = IF decoded THEN UpsertCallback(call, call.pos + 1)
                ELSE [call EXCEPT !.pc = "done", !.err = "decode"]
    /\ UNCHANGED <<streamVars, cancelled>>

\* the stream has delivered every table row
UpsertStreamEnd ==
    /\ call.fn = "UpsertMetadata"
    /\ call.pc = "stream"
    /\ call.pos = Len(call.table)
    /\ call' = [call EXCEPT !.pc = "write"]
    /\ UNCHANGED <<streamVars, cancelled>>

\* update the matched entries, insert the remaining ones; either write may fail
UpsertWrite ==
    /\ call.fn = "UpsertMetadata"
    /\ call.pc = "write"
    /\ \E updateFails, insertFails \in BOOLEAN :
        LET updated == IF call.upd # <<>> /\ ~updateFails
                       THEN {call.upd[i] : i \in 1..Len(call.upd)} ELSE {}
            updErr == call.upd # <<>> /\ updateFails
            inserted == IF ~updErr /\ call.match # <<>> /\ ~insertFails
                        THEN {call.match[i] : i \in 1..Len(call.match)} ELSE {}
            insErr == ~updErr /\ call.match # <<>> /\ insertFails
        IN  call' = [call EXCEPT !.pc = "done",
                                 !.updated = updated,
                                 !.inserted = inserted,
                                 !.err = IF updErr THEN "update"
                                         ELSE IF insErr THEN "insert" ELSE "nil"]
    /\ UNCHANGED <<streamVars, cancelled>>

UpsertNext == UpsertRow \/ UpsertStreamEnd \/ UpsertWrite

UpsertSpec == UpsertInit /\ [][UpsertNext]_vars

\* C30: the call partitions its input: every entry is either updated, with
\* the row id of a table row of the same address, asset id and kind, or
\* inserted, never both and never neither; an entry is inserted only if no
\* table row matches it, and no row id is given to two entries.
C30_UpsertPartition ==
    (call.fn = "UpsertMetadata" /\ call.pc = "done" /\ call.err = "nil") =>
        LET updatedEntries == {u.entry : u \in call.updated}
        IN  /\ \A i \in 1..Len(call.entries) :
                  (i \in updatedEntries) # (i \in call.inserted)
            /\ \A u \in call.updated :
                  /\ u.RowId \in 1..Len(call.table)
                  /\ call.table[u.RowId] = call.entries[u.entry]
            /\ \A i \in call.inserted :
                  \A r \in 1..Len(call.table) : call.table[r] # call.entries[i]
            /\ \A u, v \in call.updated : u.RowId = v.RowId => u = v

====
